---- MODULE Spec2Model ----
(***************************************************************************)
(* Model of the visitor-management backend (src/Outside/main.py): the      *)
(* bearer-token service, the tenant resolver, the subscription gate, the   *)
(* device-limit gate and the resource handlers built on them.              *)
(*                                                                         *)
(* Text values are sequences of character codes: 0..9 are the decimal      *)
(* digits, 10..15 the hex letters a..f.  None is the empty sequence.  A    *)
(* bson ObjectId is the sequence of its hex characters behind the marker   *)
(* 30, so that an ObjectId never equals the string that spells it, as in   *)
(* the document store.                                                     *)
(***************************************************************************)
EXTENDS Integers, Sequences, FiniteSets, TLC

VARIABLES now, nextId, companies, users, issued, locations, subscriptions,
          devices, visitors, resp, themes, theme_activations, indexes, calls

\* The theme store: the themes and theme_activations collections, the unique
\* indexes the database holds, and the activate requests in flight.
themeVars == <<themes, theme_activations, indexes, calls>>

vars == <<now, nextId, companies, users, issued, locations, subscriptions,
          devices, visitors, resp, themes, theme_activations, indexes, calls>>

(***************************************************************************)
(* Bounds of the model.                                                    *)
(***************************************************************************)
MaxTime == 3
MaxTTL == 2
MaxUsers == 2
MaxCompanies == 2
MaxTokens == 2

(***************************************************************************)
(* Text, ids and the document store.                                       *)
(***************************************************************************)
None == <<>>

\* str(ObjectId): the fixed-width hex spelling of document number n.
IdStr(n) == <<0, n>>

IdLen == 2

\* bson.ObjectId.is_valid for a string.
IsValidOid(s) == Len(s) = IdLen /\ \A i \in 1..Len(s) : s[i] \in 0..15

\* ObjectId(x): an ObjectId is returned unchanged, a string is wrapped.
ObjectId(s) == IF Len(s) > 0 /\ s[1] = 30 THEN s ELSE <<30>> \o s

\* str(x): the spelling of an ObjectId, a string unchanged.
Str(s) == IF Len(s) > 0 /\ s[1] = 30 THEN Tail(s) ELSE s

\* The _id of document number n.
DocId(n) == ObjectId(IdStr(n))

\* collection.find_one({"_id": key}): the numbers of the matching documents.
FindById(coll, key) == {n \in DOMAIN coll : DocId(n) = key}

\* insert_one: the collection with document number n added.
Insert(coll, n, doc) == [i \in DOMAIN coll \cup {n} |-> IF i = n THEN doc ELSE coll[i]]

\* delete_one({"_id": ...}) of document number n.
Delete(coll, n) == [i \in DOMAIN coll \ {n} |-> coll[i]]

\* The decimal digits of a natural number, as f"{exp}" prints them.
RECURSIVE Digits(_)
Digits(n) == IF n < 10 THEN <<n>> ELSE Digits(n \div 10) \o <<n % 10>>

\* f"{x}" for a text-or-None value x.
Fmt(x) == IF x = None THEN <<23, 24, 23, 25>> ELSE x

\* x or y
Or(x, y) == IF x # None THEN x ELSE y

(***************************************************************************)
(* Credential & token service.                                             *)
(***************************************************************************)
SECRET_KEY == <<20, 21>>

\* hashlib.sha256(text).hexdigest(), taken to be collision free: the digest
\* stands for the text it was computed from.
Sha256(text) == <<40>> \o text

\* The signed text f"{user_id or company_id}{exp}{SECRET_KEY}".
Signature(user_id, company_id, exp) ==
    Sha256(Fmt(Or(user_id, company_id)) \o Digits(exp) \o SECRET_KEY)

\* create_access_token(data, expires_delta) at time t; data carries user_id,
\* company_id and sub (each None when absent).
create_access_token(data, ttl, t) ==
    LET expire_time == t + ttl
        user_id == data.user_id
        company_id == IF data.user_id = None /\ data.company_id = None
                      THEN data.sub ELSE data.company_id
    IN  [kind |-> "token", user_id |-> user_id, company_id |-> company_id,
         exp |-> expire_time,
         signature |-> Signature(user_id, company_id, expire_time)]

\* The documents of the company_admin users of a company (legacy lookup).
CompanyAdmins(company_id) ==
    {u \in DOMAIN users : users[u].company_id = company_id /\ users[u].role = "company_admin"}

\* An expiry check that also rejects a token at the instant of its expiry.
Expired_mut(t, exp) == t >= exp

\* current_time > exp
Expired(t, exp) == t > exp

\* The body of the try block of get_current_user: what it raises, or the
\* user_id it leaves.  legacy is the document users.find(...).to_list(1)
\* returned for a token without user_id (None when it returned nothing).
TokenCheck(cred, t, legacy) ==
    IF cred.kind = "missing" THEN [raised |-> "credentials_exception", user_id |-> None]
    ELSE IF cred.kind = "undecodable" THEN [raised |-> "credentials_exception", user_id |-> None]
    ELSE LET user_id == IF cred.user_id = None /\ cred.company_id # None /\ legacy # None
                        THEN legacy ELSE cred.user_id
         IN  IF user_id = None
             THEN [raised |-> "credentials_exception", user_id |-> None]
             ELSE IF Expired(t, cred.exp)
             THEN [raised |-> "TokenExpiredException", user_id |-> None]
             ELSE IF cred.signature # Signature(user_id, cred.company_id, cred.exp)
             THEN [raised |-> "credentials_exception", user_id |-> None]
             ELSE [raised |-> "none", user_id |-> user_id]

\* "except Exception as e: raise credentials_exception" around the try block:
\* every exception raised inside, TokenExpiredException included, leaves as
\* credentials_exception.
ExceptException(r) ==
    IF r.raised # "none" THEN [raised |-> "credentials_exception", user_id |-> None] ELSE r

\* The response the exception handlers produce for what get_current_user
\* raises, or the user document number it returns.
AuthResult(r) ==
    IF r.raised = "TokenExpiredException"
    THEN [code |-> 401, error_code |-> "TOKEN_EXPIRED", user |-> 0]
    ELSE IF r.raised = "credentials_exception"
    THEN [code |-> 401, error_code |-> "AUTHENTICATION_FAILED", user |-> 0]
    ELSE IF ~IsValidOid(r.user_id)
    THEN [code |-> 500, error_code |-> "INTERNAL_SERVER_ERROR", user |-> 0]
    ELSE IF FindById(users, ObjectId(r.user_id)) = {}
    THEN [code |-> 401, error_code |-> "AUTHENTICATION_FAILED", user |-> 0]
    ELSE [code |-> 200, error_code |-> "", user |-> CHOOSE n \in FindById(users, ObjectId(r.user_id)) : TRUE]

get_current_user(cred, t, legacy) == AuthResult(ExceptException(TokenCheck(cred, t, legacy)))

(***************************************************************************)
(* The token service as a state machine: accounts are registered and       *)
(* deleted, tokens are minted, time passes, and a bearer credential (a     *)
(* minted token, an altered one, or none) is presented to get_current_user.*)
(***************************************************************************)
EmptyColl == [i \in {} |-> 0]

\* A database without themes, before setup_theme_collections.py was run.
NoThemes ==
    /\ themes = EmptyColl
    /\ theme_activations = EmptyColl
    /\ indexes = {}
    /\ calls = EmptyColl

NoCred(kind) == [kind |-> kind, user_id |-> None, company_id |-> None, exp |-> 0,
                 signature |-> None]

Roles == {"super_admin", "company_admin"}

\* ObjectIds are unique across collections: the companies of the token
\* service are numbered after its users, so that no company id spells a
\* user id.
FirstCompany == MaxUsers + 2

InitToken ==
    /\ now = 0
    /\ nextId = [users |-> 1, companies |-> FirstCompany, locations |-> 1, subscriptions |-> 1,
                 devices |-> 1, visitors |-> 1]
    /\ companies = EmptyColl
    /\ users = EmptyColl
    /\ issued = {}
    /\ locations = EmptyColl
    /\ subscriptions = EmptyColl
    /\ devices = EmptyColl
    /\ visitors = EmptyColl
    /\ resp = [op |-> "none"]
    /\ NoThemes

\* POST /auth/register: inserts the company, then the user, then mints a
\* token for (user_id, company_id).
register_user(role, ttl) ==
    /\ nextId.users <= MaxUsers
    /\ nextId.companies < FirstCompany + MaxCompanies
    /\ Cardinality(issued) < MaxTokens
    /\ LET c == nextId.companies
           u == nextId.users
           company_id == Str(DocId(c))
           user_id == Str(DocId(u))
       IN  /\ companies' = Insert(companies, c, [status |-> "active"])
           /\ users' = Insert(users, u, [company_id |-> company_id, role |-> role])
           /\ nextId' = [nextId EXCEPT !.companies = c + 1, !.users = u + 1]
           /\ issued' = issued \cup
                  {create_access_token([user_id |-> user_id, company_id |-> company_id,
                                        sub |-> None], ttl, now)}
           /\ resp' = [op |-> "register_user", code |-> 200]
    /\ UNCHANGED themeVars
    /\ UNCHANGED <<now, locations, subscriptions, devices, visitors>>

\* POST /auth/login of an existing account with the right password.
login_user(u, ttl) ==
    /\ u \in DOMAIN users
    /\ Cardinality(issued) < MaxTokens
    /\ issued' = issued \cup
           {create_access_token([user_id |-> Str(DocId(u)),
                                 company_id |-> users[u].company_id,
                                 sub |-> None], ttl, now)}
    /\ resp' = [op |-> "login_user", code |-> 200]
    /\ UNCHANGED themeVars
    /\ UNCHANGED <<now, nextId, companies, users, locations, subscriptions, devices, visitors>>

\* A token of the old format: create_access_token called with a company id
\* only, under the key company_id or under the key sub.
legacy_token(c, key, ttl) ==
    /\ c \in DOMAIN companies
    /\ Cardinality(issued) < MaxTokens
    /\ issued' = issued \cup
           {create_access_token([user_id |-> None,
                                 company_id |-> IF key = "company_id" THEN Str(DocId(c)) ELSE None,
                                 sub |-> IF key = "sub" THEN Str(DocId(c)) ELSE None], ttl, now)}
    /\ resp' = [op |-> "legacy_token", code |-> 200]
    /\ UNCHANGED themeVars
    /\ UNCHANGED <<now, nextId, companies, users, locations, subscriptions, devices, visitors>>

\* DELETE /users/{user_id}
delete_user(u) ==
    /\ u \in DOMAIN users
    /\ users' = Delete(users, u)
    /\ resp' = [op |-> "delete_user", code |-> 200]
    /\ UNCHANGED themeVars
    /\ UNCHANGED <<now, nextId, companies, issued, locations, subscriptions, devices, visitors>>

\* The clock advances.
Tick ==
    /\ now < MaxTime
    /\ now' = now + 1
    /\ UNCHANGED themeVars
    /\ UNCHANGED <<nextId, companies, users, issued, locations, subscriptions, devices,
                   visitors, resp>>

\* users.find({"company_id": ..., "role": "company_admin"}).to_list(1): any
\* one matching document in an unspecified order, or nothing.
LegacyChoices(cred) ==
    IF CompanyAdmins(cred.company_id) = {} THEN {None}
    ELSE {Str(DocId(u)) : u \in CompanyAdmins(cred.company_id)}

\* A request carrying cred reaches get_current_user; orig is the minted
\* token cred was made from.
Present(cred, orig) ==
    /\ \E legacy \in LegacyChoices(cred) :
          resp' = [op |-> "get_current_user", cred |-> cred, orig |-> orig, at |-> now,
                   result |-> get_current_user(cred, now, legacy)]
    /\ UNCHANGED themeVars
    /\ UNCHANGED <<now, nextId, companies, users, issued, locations, subscriptions,
                   devices, visitors>>

PresentIssued == \E tok \in issued : Present(tok, tok)

\* The values an attacker may put in the fields of a token: no id, a
\* truncated id, the id of any account; an earlier, a later and a 
\* digit-prefixed expiry; the signature of another token or of nothing.
TamperIds == {None, <<0>>} \cup {IdStr(n) : n \in 1..MaxUsers}

TamperExps(tok) == {0, tok.exp + 1, 10 + tok.exp}

TamperSigs(tok) == {Sha256(None)} \cup {t.signature : t \in issued}

\* The tokens made from a minted token by altering one field, or the
\* user_id together with the expiry.
Tampered(tok) ==
    ( {[tok EXCEPT !.user_id = a] : a \in TamperIds}
      \cup {[tok EXCEPT !.company_id = b] : b \in TamperIds}
      \cup {[tok EXCEPT !.exp = e] : e \in TamperExps(tok)}
      \cup {[tok EXCEPT !.signature = s] : s \in TamperSigs(tok)}
      \cup {[tok EXCEPT !.user_id = a, !.exp = e] : a \in TamperIds, e \in TamperExps(tok)}
    ) \ issued

PresentTampered == \E tok \in issued : \E cred \in Tampered(tok) : Present(cred, tok)

PresentNothing == \E kind \in {"missing", "undecodable"} : Present(NoCred(kind), NoCred(kind))

NextToken ==
    \/ \E role \in Roles, ttl \in 1..MaxTTL : register_user(role, ttl)
    \/ \E u \in 1..MaxUsers, ttl \in 1..MaxTTL : login_user(u, ttl)
    \/ \E c \in FirstCompany..(FirstCompany + MaxCompanies - 1),
          key \in {"company_id", "sub"}, ttl \in 1..MaxTTL :
           legacy_token(c, key, ttl)
    \/ \E u \in 1..MaxUsers : delete_user(u)
    \/ Tick
    \/ PresentIssued
    \/ PresentTampered
    \/ PresentNothing

SpecToken == InitToken /\ [][NextToken]_vars

(***************************************************************************)
(* Tenant resolver.                                                        *)
(***************************************************************************)
\* The id of the virtual company of a super admin,
\* ObjectId("000000000000000000000000").
VirtualCompanyId == ObjectId(IdStr(0))

\* get_current_company(current_user): the company context of user number u;
\* _id is an ObjectId, role is the user's role.
get_current_company(u) ==
    IF users[u].role = "super_admin"
    THEN [code |-> 200, user |-> u, _id |-> VirtualCompanyId, role |-> "super_admin"]
    ELSE IF users[u].company_id = None
    THEN [code |-> 401, user |-> u, _id |-> None, role |-> users[u].role]
    ELSE IF FindById(companies, ObjectId(users[u].company_id)) = {}
    THEN [code |-> 401, user |-> u, _id |-> None, role |-> users[u].role]
    ELSE [code |-> 200, user |-> u, _id |-> ObjectId(users[u].company_id),
          role |-> users[u].role]

\* The users whose requests pass get_current_company.
Callers == {u \in DOMAIN users : get_current_company(u).code = 200}

\* devices.find_one({"device_token": token}) for a non-empty token.
get_current_device(token) ==
    {d \in DOMAIN devices : token # None /\ devices[d].device_token = token}

\* A stamp that touches every device.
StampLastSeen_mut(d, t) == [x \in DOMAIN devices |-> [devices[x] EXCEPT !.last_seen = t]]

\* devices.update_one({"_id": device["_id"]}, {"$set": {"last_seen": now}}):
\* the devices collection after get_current_device found device d at time t.
StampLastSeen(d, t) == [devices EXCEPT ![d].last_seen = t]

(***************************************************************************)
(* Responses.                                                              *)
(***************************************************************************)
Ok == [code |-> 200, inner |-> 200]

\* raise HTTPException(status_code=c)
Err(c) == [code |-> c, inner |-> c]

\* "except HTTPException: raise": the status raised is the status returned.
Reraise(r) == r

\* "except Exception as e: raise HTTPException(status_code=400,
\* detail=str(e))" with no HTTPException clause before it: an HTTPException
\* raised in the handler leaves as 400, its own status kept only in detail.
Wrap400(r) == IF r.code # 200 THEN [code |-> 400, inner |-> r.inner] ELSE r

(***************************************************************************)
(* Subscription gate and device-limit gate.                                *)
(***************************************************************************)
ValidStatuses == {"active", "trialing", "past_due"}

\* locations.find_one({"_id": ObjectId(location_id)})
FindLocation(location_id) == FindById(locations, ObjectId(location_id))

\* subscriptions.find_one({"_id": ObjectId(subscription_id),
\*                         "status": {"$in": [active, trialing, past_due]}})
FindValidSubscription(subscription_id) ==
    {s \in FindById(subscriptions, ObjectId(subscription_id)) :
        subscriptions[s].status \in ValidStatuses}

\* The subscription lookup of the gate for a location document.
GateSubscription(l) ==
    IF locations[l].subscription_id # None
    THEN FindValidSubscription(locations[l].subscription_id)
    ELSE {}

\* "current_company.get('role') != 'super_admin' and
\*  str(location.get('company_id')) != str(current_company['_id'])"
AccessDenied(ctx, l) ==
    ctx.role # "super_admin" /\ Str(locations[l].company_id) # Str(ctx._id)

\* "subscription.get('trial_end') and status == 'trialing'" and
\* "trial_end < datetime.now(timezone.utc)"
TrialExpired(s, t) ==
    /\ subscriptions[s].trial_end # -1
    /\ subscriptions[s].status = "trialing"
    /\ subscriptions[s].trial_end < t

\* validate_location_subscription(location_id, current_company) at time t.
validate_location_subscription(location_id, ctx, t) ==
    IF FindLocation(location_id) = {} THEN Err(404)
    ELSE LET l == CHOOSE x \in FindLocation(location_id) : TRUE
         IN  IF AccessDenied(ctx, l) THEN Err(403)
             ELSE IF GateSubscription(l) = {} THEN Err(402)
             ELSE LET sub == CHOOSE x \in GateSubscription(l) : TRUE
                  IN  IF TrialExpired(sub, t) THEN Err(402) ELSE Ok

\* The copy of the gate written out in create_visitor: location, ownership
\* and subscription lookup, without the trial check.
InlineGate(location_id, ctx) ==
    IF FindLocation(location_id) = {} THEN Err(404)
    ELSE LET l == CHOOSE x \in FindLocation(location_id) : TRUE
         IN  IF AccessDenied(ctx, l) THEN Err(403)
             ELSE IF GateSubscription(l) = {} THEN Err(402)
             ELSE Ok

\* The copy of the gate written out in create_visitor_device: location and
\* subscription lookup, without ownership and trial checks.
InlineGateDevice(location_id) ==
    IF FindLocation(location_id) = {} THEN Err(404)
    ELSE LET l == CHOOSE x \in FindLocation(location_id) : TRUE
         IN  IF GateSubscription(l) = {} THEN Err(402) ELSE Ok

\* The plan table of check_device_limits.
DeviceLimitBasic == 5
DeviceLimitProfessional == 15
DeviceLimitEnterprise == 999

device_limits(plan_type) ==
    IF plan_type = "basic" THEN DeviceLimitBasic
    ELSE IF plan_type = "professional" THEN DeviceLimitProfessional
    ELSE IF plan_type = "enterprise" THEN DeviceLimitEnterprise
    ELSE DeviceLimitBasic

\* max_devices of a subscription: metadata.max_devices when truthy, else the
\* plan table.
MaxDevicesOf(s) ==
    IF subscriptions[s].max_devices # 0 THEN subscriptions[s].max_devices
    ELSE device_limits(subscriptions[s].plan)

\* devices.count_documents({"location_id": ObjectId(location_id),
\*                          "status": {"$ne": "inactive"}}): the stored
\* location_id is compared with an ObjectId.
CountActiveDevices(location_id) ==
    Cardinality({d \in DOMAIN devices :
        /\ devices[d].location_id = ObjectId(location_id)
        /\ devices[d].status # "inactive"})

\* check_device_limits(location_id, current_company)
check_device_limits(location_id) ==
    IF FindLocation(location_id) = {} THEN Err(404)
    ELSE LET l == CHOOSE x \in FindLocation(location_id) : TRUE
         IN  IF GateSubscription(l) = {} THEN Err(402)
             ELSE LET sub == CHOOSE x \in GateSubscription(l) : TRUE
                  IN  IF CountActiveDevices(location_id) >= MaxDevicesOf(sub)
                      THEN Err(403) ELSE Ok

\* float('inf'): a max_devices value no plan table holds.
Infinity == -1

\* What check_device_limits returns when it raises nothing: plan_type "none"
\* stands for a check that did not return.  devices_remaining is either
\* the number max_devices - current_devices or the string "unlimited"
\* (unlimited TRUE).
NoLimits ==
    [plan_type |-> "none", current_devices |-> 0, max_devices |-> 0,
     unlimited |-> FALSE, devices_remaining |-> 0]

DeviceLimits(location_id) ==
    IF check_device_limits(location_id).code # 200 THEN NoLimits
    ELSE LET l == CHOOSE x \in FindLocation(location_id) : TRUE
             sub == CHOOSE x \in GateSubscription(l) : TRUE
             max_devices == MaxDevicesOf(sub)
             current_device_count == CountActiveDevices(location_id)
         IN  [plan_type |-> subscriptions[sub].plan,
              current_devices |-> current_device_count,
              max_devices |-> max_devices,
              unlimited |-> max_devices = Infinity,
              devices_remaining |-> IF max_devices # Infinity
                                    THEN max_devices - current_device_count ELSE 0]

(***************************************************************************)
(* Resource handlers.  Every handler records its response in resp, with    *)
(* the requester, the target and what the gate would have seen.            *)
(***************************************************************************)
MaxLocations == 1
MaxSubscriptions == 2
MaxDevices == 1
MaxVisitors == 1

\* timedelta(days=14), the clock of the model counting weeks.
TRIAL_PERIOD == 2

\* company.get("max_locations", 5)
DefaultMaxLocations == 5

Plans == {"basic", "professional", "enterprise"}

\* plan_pricing[plan]["max_devices"] of create_subscription and
\* update_subscription.
plan_pricing(plan) ==
    IF plan = "basic" THEN DeviceLimitBasic
    ELSE IF plan = "professional" THEN DeviceLimitProfessional
    ELSE DeviceLimitEnterprise

\* stripe key "sk_test_..." (the default): development mode.
is_development == TRUE

\* f"sub_dev_{company_id}_{int(time.time())}"
MockSubscriptionId(company_id, t) == <<50>> \o company_id \o <<51>> \o Digits(t)

\* secrets.token_urlsafe(32) of the device inserted as number d.
DeviceToken(d) == <<60, d>>

\* What the request finds at its target location when it arrives: whether
\* the location exists, who owns it, the status of the subscription its
\* subscription_id names ("none" without one) and whether that
\* subscription is a trial whose trial_end has passed.
GateView(location_id) ==
    IF location_id = None \/ FindLocation(location_id) = {}
    THEN [exists |-> FALSE, owner |-> None, linked |-> "none", lapsed |-> FALSE]
    ELSE LET l == CHOOSE x \in FindLocation(location_id) : TRUE
             subs == IF locations[l].subscription_id = None THEN {}
                     ELSE FindById(subscriptions, ObjectId(locations[l].subscription_id))
         IN  [exists |-> TRUE,
              owner |-> locations[l].company_id,
              linked |-> IF subs = {} THEN "none"
                         ELSE subscriptions[CHOOSE x \in subs : TRUE].status,
              lapsed |-> /\ subs # {}
                         /\ LET sub == subscriptions[CHOOSE x \in subs : TRUE]
                            IN  sub.status = "trialing" /\ sub.trial_end < now]

\* The response of operation op requested by a user with context ctx.
Response(op, ctx, location_id, target, r, created) ==
    [op |-> op, caller |-> ctx.user, role |-> ctx.role, company |-> Str(ctx._id),
     loc |-> location_id, target |-> target, code |-> r.code, inner |-> r.inner,
     created |-> created, gate |-> GateView(location_id)]

\* The context of a device principal: company and location, no role.
DeviceCtx(d) == [user |-> 0, role |-> "device", _id |-> devices[d].company_id]

\* The context of a request that carries no credentials.
Anonymous == [user |-> 0, role |-> "anonymous", _id |-> None]

\* The contexts a request to an unauthenticated route may come from.
Requesters == {Anonymous} \cup {get_current_company(u) : u \in Callers}

\* POST /subscriptions
create_subscription(u, location_id, plan, payment_method) ==
    /\ u \in Callers
    /\ LET ctx == get_current_company(u)
           company_id == Str(ctx._id)
           n == nextId.subscriptions
           owned == {l \in FindLocation(location_id) : locations[l].company_id = company_id}
           existing_sub == {s \in DOMAIN subscriptions :
                               /\ subscriptions[s].location_id = location_id
                               /\ subscriptions[s].status \in ValidStatuses}
           r == IF location_id # None /\ owned = {} THEN Err(404)
                ELSE IF location_id # None /\ existing_sub # {} THEN Err(400)
                ELSE Ok
           doc == [company_id |-> company_id, plan |-> plan, status |-> "trialing",
                   trial_end |-> now + TRIAL_PERIOD,
                   max_devices |-> plan_pricing(plan),
                   location_id |-> location_id,
                   stripe_subscription_id |->
                       IF payment_method /\ is_development
                       THEN MockSubscriptionId(company_id, now) ELSE None]
       IN  /\ resp' = Response("create_subscription", ctx, location_id, None, Reraise(r),
                               r.code = 200)
           /\ IF r.code = 200
              THEN /\ subscriptions' = Insert(subscriptions, n, doc)
                   /\ nextId' = [nextId EXCEPT !.subscriptions = n + 1]
                   /\ locations' =
                        IF location_id = None THEN locations
                        ELSE [l \in DOMAIN locations |->
                                IF l \in owned
                                THEN [locations[l] EXCEPT !.subscription_id = Str(DocId(n)),
                                                          !.subscription_status = "trialing"]
                                ELSE locations[l]]
              ELSE UNCHANGED <<subscriptions, nextId, locations>>
    /\ UNCHANGED themeVars
    /\ UNCHANGED <<now, companies, users, issued, devices, visitors>>

\* POST /companies/{company_id}/locations
create_location(ctx, company_id, subscription_id) ==
    /\ ctx \in Requesters
    /\ LET n == nextId.locations
           subs == FindById(subscriptions, ObjectId(subscription_id))
           sub == subscriptions[CHOOSE x \in subs : TRUE]
           r == IF FindById(companies, ObjectId(company_id)) = {} THEN Err(404)
                ELSE IF subs = {} THEN Err(404)
                ELSE IF sub.company_id # company_id THEN Err(400)
                ELSE IF sub.status \notin ValidStatuses THEN Err(400)
                ELSE IF \E l \in DOMAIN locations : locations[l].subscription_id = subscription_id
                THEN Err(400)
                ELSE IF Cardinality({l \in DOMAIN locations : locations[l].company_id = company_id})
                          >= DefaultMaxLocations
                THEN Err(400)
                ELSE Ok
       IN  /\ resp' = Response("create_location", ctx, None, subscription_id, Reraise(r),
                               r.code = 200)
           /\ IF r.code = 200
              THEN /\ locations' = Insert(locations, n,
                         [company_id |-> company_id, subscription_id |-> subscription_id,
                          status |-> "active", subscription_status |-> "none"])
                   /\ nextId' = [nextId EXCEPT !.locations = n + 1]
                   /\ subscriptions' = [s \in DOMAIN subscriptions |->
                         IF s \in subs
                         THEN [subscriptions[s] EXCEPT !.location_id = Str(DocId(n))]
                         ELSE subscriptions[s]]
              ELSE UNCHANGED <<locations, nextId, subscriptions>>
    /\ UNCHANGED themeVars
    /\ UNCHANGED <<now, companies, users, issued, devices, visitors>>

\* GET /locations/{location_id}
get_location(ctx, location_id) ==
    /\ ctx \in Requesters
    /\ LET r == IF FindLocation(location_id) = {} THEN Err(404) ELSE Ok
       IN  resp' = Response("get_location", ctx, location_id, None, Reraise(r), FALSE)
    /\ UNCHANGED themeVars
    /\ UNCHANGED <<now, nextId, companies, users, issued, locations, subscriptions,
                   devices, visitors>>

\* The fields a PUT may set, with company_id among them.
allowed_fields_mut ==
    {"name", "address", "latitude", "longitude", "timezone", "status", "settings",
     "working_hours", "contact_info", "company_id"}

\* The fields of a location a PUT /locations/{location_id} may set.
allowed_fields ==
    {"name", "address", "latitude", "longitude", "timezone", "status", "settings",
     "working_hours", "contact_info"}

\* PUT /locations/{location_id} with the JSON object update_data: the
\* allowed fields of update_data are $set, 400 when there is none.
update_location(ctx, location_id, update_data) ==
    /\ ctx \in Requesters
    /\ LET found == FindLocation(location_id)
           update_dict == [f \in DOMAIN update_data \cap allowed_fields |-> update_data[f]]
           r == IF found = {} THEN Err(404)
                ELSE IF DOMAIN update_dict = {} THEN Err(400)
                ELSE Ok
       IN  /\ resp' = Response("update_location", ctx, location_id, None, Reraise(r), FALSE)
           /\ locations' = [l \in DOMAIN locations |->
                              IF r.code = 200 /\ l \in found
                              THEN [f \in DOMAIN locations[l] |->
                                      IF f \in DOMAIN update_dict THEN update_dict[f]
                                      ELSE locations[l][f]]
                              ELSE locations[l]]
    /\ UNCHANGED themeVars
    /\ UNCHANGED <<now, nextId, companies, users, issued, subscriptions, devices, visitors>>

\* DELETE /locations/{location_id}
delete_location(ctx, location_id) ==
    /\ ctx \in Requesters
    /\ LET found == FindLocation(location_id)
           devices_count == Cardinality({d \in DOMAIN devices :
                                            devices[d].location_id = location_id})
           active_visitors == Cardinality({v \in DOMAIN visitors :
                                            /\ visitors[v].location_id = location_id
                                            /\ visitors[v].status = "checked_in"})
           r == IF found = {} THEN Err(404)
                ELSE IF devices_count > 0 THEN Err(400)
                ELSE IF active_visitors > 0 THEN Err(400)
                ELSE Ok
       IN  /\ resp' = Response("delete_location", ctx, location_id, None, Reraise(r), FALSE)
           /\ locations' = [l \in DOMAIN locations |->
                              IF r.code = 200 /\ l \in found
                              THEN [locations[l] EXCEPT !.status = "inactive"]
                              ELSE locations[l]]
    /\ UNCHANGED themeVars
    /\ UNCHANGED <<now, nextId, companies, users, issued, subscriptions, devices, visitors>>

\* The locations, devices and users whose company_id is company_id (the
\* three count_documents of delete_company), tagged by collection.
Dependents(company_id) ==
    {<<"location", l>> : l \in {x \in DOMAIN locations : locations[x].company_id = company_id}}
    \cup {<<"device", d>> : d \in {x \in DOMAIN devices : devices[x].company_id = company_id}}
    \cup {<<"user", u>> : u \in {x \in DOMAIN users : users[x].company_id = company_id}}

\* DELETE /companies/{company_id}: no credentials; refused with 400 while the
\* company has a location, a device or a user, otherwise the company is
\* marked inactive.
delete_company(ctx, company_id) ==
    /\ ctx \in Requesters
    /\ LET found == FindById(companies, ObjectId(company_id))
           r == IF found = {} THEN Err(404)
                ELSE IF Dependents(company_id) # {} THEN Err(400)
                ELSE Ok
       IN  /\ resp' = Response("delete_company", ctx, None, company_id, Reraise(r), FALSE)
           /\ companies' = [c \in DOMAIN companies |->
                              IF r.code = 200 /\ c \in found
                              THEN [companies[c] EXCEPT !.status = "inactive"]
                              ELSE companies[c]]
    /\ UNCHANGED themeVars
    /\ UNCHANGED <<now, nextId, users, issued, locations, subscriptions, devices, visitors>>

\* The values of VisitorStatus.
VisitorStatuses == {"checked_in", "checked_out", "expired"}

\* visitor.dict() of a VisitorData body with form_id "default": status and
\* check_out_time are fields of the body (defaults checked_in and None,
\* written -1).
NewVisitor(location_id, status, check_out_time) ==
    [location_id |-> location_id, form_id |-> "default", status |-> status,
     check_out_time |-> check_out_time]

\* POST /visitors
create_visitor(u, location_id, status, check_out_time) ==
    /\ u \in Callers
    /\ status \in VisitorStatuses
    /\ LET ctx == get_current_company(u)
           n == nextId.visitors
           r == Wrap400(InlineGate(location_id, ctx))
       IN  /\ resp' = Response("create_visitor", ctx, location_id, None, r, r.code = 200)
           /\ IF r.code = 200
              THEN /\ visitors' = Insert(visitors, n, NewVisitor(location_id, status, check_out_time))
                   /\ nextId' = [nextId EXCEPT !.visitors = n + 1]
              ELSE UNCHANGED <<visitors, nextId>>
    /\ UNCHANGED themeVars
    /\ UNCHANGED <<now, companies, users, issued, locations, subscriptions, devices>>

\* POST /device/visitors with the X-Device-Token of device d
\* A device that is let at every location.
DeviceAtLocation_mut(d, location_id) == TRUE

\* The location the request is about is the one device d is linked to.
DeviceAtLocation(d, location_id) == location_id = devices[d].location_id

\* A check that never finds a visitor checked out.
AlreadyCheckedOut_mut(v) == FALSE

\* visitor.get("check_out_time") is set.
AlreadyCheckedOut(v) == visitors[v].check_out_time # -1

\* trigger_workflows(form_id, trigger_type, visitor) runs every action with
\* that trigger of the active workflows of the form; the response keeps
\* the trigger the handler fired, "none" when it fired none.
trigger_workflows(r, trigger_type) ==
    [triggered |-> IF r.code = 200 THEN trigger_type ELSE "none"]

create_visitor_device(token, location_id, status, check_out_time) ==
    /\ get_current_device(token) # {}
    /\ status \in VisitorStatuses
    /\ LET d == CHOOSE x \in get_current_device(token) : TRUE
           n == nextId.visitors
           r == IF ~DeviceAtLocation(d, location_id) THEN Err(403)
                ELSE InlineGateDevice(location_id)
       IN  /\ devices' = StampLastSeen(d, now)
           /\ resp' = Response("create_visitor_device", DeviceCtx(d), location_id,
                               Str(DocId(d)), Reraise(r), r.code = 200)
           /\ IF r.code = 200
              THEN /\ visitors' = Insert(visitors, n, NewVisitor(location_id, status, check_out_time))
                   /\ nextId' = [nextId EXCEPT !.visitors = n + 1]
              ELSE UNCHANGED <<visitors, nextId>>
    /\ UNCHANGED themeVars
    /\ UNCHANGED <<now, companies, users, issued, locations, subscriptions>>

\* subscriptions.find_one({"company_id": ObjectId(current_company["_id"]),
\*                         "status": "active"}) of checkout_visitor
CompanyActiveSubscription(ctx) ==
    {s \in DOMAIN subscriptions :
        subscriptions[s].company_id = ObjectId(ctx._id) /\ subscriptions[s].status = "active"}

\* PUT /visitors/{visitor_id}/checkout
checkout_visitor(u, visitor_id) ==
    /\ u \in Callers
    /\ LET ctx == get_current_company(u)
           found == FindById(visitors, ObjectId(visitor_id))
           v == CHOOSE x \in found : TRUE
           location_id == visitors[v].location_id
           l == CHOOSE x \in FindLocation(location_id) : TRUE
           r == IF found = {} THEN Err(404)
                ELSE IF location_id = None THEN Err(400)
                ELSE IF FindLocation(location_id) = {} THEN Err(404)
                ELSE IF Str(locations[l].company_id) # Str(ctx._id) THEN Err(403)
                ELSE IF CompanyActiveSubscription(ctx) = {} THEN Err(402)
                ELSE Ok
       IN  /\ resp' = Response("checkout_visitor", ctx,
                               IF found = {} THEN None ELSE location_id,
                               visitor_id, Wrap400(r), FALSE)
                        @@ trigger_workflows(r, "on_checkout")
           /\ visitors' = [x \in DOMAIN visitors |->
                             IF r.code = 200 /\ x \in found
                             THEN [visitors[x] EXCEPT !.status = "checked_out",
                                                      !.check_out_time = now]
                             ELSE visitors[x]]
    /\ UNCHANGED themeVars
    /\ UNCHANGED <<now, nextId, companies, users, issued, locations, subscriptions, devices>>

\* POST /device/visitors/{visitor_id}/checkout with the token of device d
checkout_visitor_device(token, visitor_id) ==
    /\ get_current_device(token) # {}
    /\ LET d == CHOOSE x \in get_current_device(token) : TRUE
           found == FindById(visitors, ObjectId(visitor_id))
           v == CHOOSE x \in found : TRUE
           r == IF found = {} THEN Err(404)
                ELSE IF ~DeviceAtLocation(d, visitors[v].location_id) THEN Err(403)
                ELSE IF AlreadyCheckedOut(v) THEN Err(400)
                ELSE Ok
       IN  /\ devices' = StampLastSeen(d, now)
           /\ resp' = Response("checkout_visitor_device", DeviceCtx(d),
                               IF found = {} THEN None ELSE visitors[v].location_id,
                               visitor_id, Reraise(r), FALSE)
                        @@ trigger_workflows(r, "on_checkout")
           /\ visitors' = [x \in DOMAIN visitors |->
                             IF r.code = 200 /\ x \in found
                             THEN [visitors[x] EXCEPT !.status = "checked_out",
                                                      !.check_out_time = now]
                             ELSE visitors[x]]
    /\ UNCHANGED themeVars
    /\ UNCHANGED <<now, nextId, companies, users, issued, locations, subscriptions>>

\* GET /device/visitors with X-Device-Token token (None when the header is
\* missing): get_current_device answers 401 for a missing or unknown token,
\* otherwise stamps the device and the handler lists the visitors of the
\* device's location.  The response keeps the devices collection as the
\* request found it.
get_visitors_device(token, status) ==
    /\ status \in VisitorStatuses \cup {"unset"}
    /\ LET found == get_current_device(token)
           d == CHOOSE x \in found : TRUE
       IN  IF found = {}
           THEN /\ resp' = [op |-> "get_visitors_device", token |-> token, at |-> now,
                            before |-> devices, code |-> 401, device |-> 0, result |-> {}]
                /\ UNCHANGED devices
           ELSE /\ resp' = [op |-> "get_visitors_device", token |-> token, at |-> now,
                            before |-> devices, code |-> 200, device |-> d,
                            result |-> {v \in DOMAIN visitors :
                                /\ visitors[v].location_id = devices[d].location_id
                                /\ status # "unset" => visitors[v].status = status}]
                /\ devices' = StampLastSeen(d, now)
    /\ UNCHANGED themeVars
    /\ UNCHANGED <<now, nextId, companies, users, issued, locations, subscriptions, visitors>>

\* PUT /visitors/{visitor_id}: no credentials; update_dict holds the fields of
\* the body that are not None ("unset" and -1 stand for an absent status and
\* an absent check_out_time) and is written with $set.
update_visitor(ctx, visitor_id, status, check_out_time) ==
    /\ ctx \in Requesters
    /\ status \in VisitorStatuses \cup {"unset"}
    /\ LET found == FindById(visitors, ObjectId(visitor_id))
           r == IF found = {} THEN Err(404) ELSE Ok
       IN  /\ resp' = Response("update_visitor", ctx, None, visitor_id, Wrap400(r), FALSE)
           /\ visitors' = [x \in DOMAIN visitors |->
                             IF x \in found
                             THEN [visitors[x] EXCEPT
                                     !.status = IF status = "unset" THEN @ ELSE status,
                                     !.check_out_time =
                                         IF check_out_time = -1 THEN @ ELSE check_out_time]
                             ELSE visitors[x]]
    /\ UNCHANGED themeVars
    /\ UNCHANGED <<now, nextId, companies, users, issued, locations, subscriptions, devices>>

\* A filter that names every location.
CompanyLocationIds_mut(ctx) == {Str(DocId(l)) : l \in DOMAIN locations}

\* locations.find({"company_id": str(current_company["_id"])}) and
\* location_ids = [str(loc["_id"]) ...]
CompanyLocationIds(ctx) ==
    {Str(DocId(l)) : l \in {x \in DOMAIN locations : locations[x].company_id = Str(ctx._id)}}

\* The visitors the query of a list route selects: every visitor for a super
\* admin, none for a company without locations, otherwise those whose
\* location_id is one of the company's location ids; status "unset" stands
\* for a query without a status.
SelectVisitors(ctx, status) ==
    {v \in DOMAIN visitors :
        /\ status # "unset" => visitors[v].status = status
        /\ ctx.role # "super_admin" => visitors[v].location_id \in CompanyLocationIds(ctx)}

\* The response of a list route: the ids of the visitors returned.
ListResponse(op, ctx, status, result) ==
    [op |-> op, caller |-> ctx.user, role |-> ctx.role, company |-> Str(ctx._id),
     filter |-> status, code |-> 200, result |-> result]

\* GET /visitors (skip 0, and a limit no smaller than the collection)
get_visitors(u, status) ==
    /\ u \in Callers
    /\ status \in VisitorStatuses \cup {"unset"}
    /\ resp' = ListResponse("get_visitors", get_current_company(u), status,
                            SelectVisitors(get_current_company(u), status))
    /\ UNCHANGED themeVars
    /\ UNCHANGED <<now, nextId, companies, users, issued, locations, subscriptions,
                   devices, visitors>>

\* GET /visitors/active
get_active_visitors(u) ==
    /\ u \in Callers
    /\ resp' = ListResponse("get_active_visitors", get_current_company(u), "checked_in",
                            SelectVisitors(get_current_company(u), "checked_in"))
    /\ UNCHANGED themeVars
    /\ UNCHANGED <<now, nextId, companies, users, issued, locations, subscriptions,
                   devices, visitors>>

\* POST /locations/{location_id}/devices: the two dependencies in the order
\* of the parameters, then the handler.
create_device(u, location_id, status) ==
    /\ u \in Callers
    /\ LET ctx == get_current_company(u)
           n == nextId.devices
           location_validation == validate_location_subscription(location_id, ctx, now)
           device_limits_check == check_device_limits(location_id)
           l == CHOOSE x \in FindLocation(location_id) : TRUE
           r == IF location_validation.code # 200 THEN location_validation
                ELSE IF device_limits_check.code # 200 THEN device_limits_check
                ELSE IF FindById(companies, ObjectId(locations[l].company_id)) = {}
                THEN Err(404)
                ELSE Ok
       IN  /\ resp' = Response("create_device", ctx, location_id, None, Reraise(r),
                               r.code = 200)
                       @@ [limits |-> IF location_validation.code = 200
                                      THEN DeviceLimits(location_id) ELSE NoLimits]
           /\ IF r.code = 200
              THEN /\ devices' = Insert(devices, n,
                         [company_id |-> locations[l].company_id,
                          location_id |-> location_id, status |-> status,
                          device_token |-> None, last_seen |-> -1,
                          last_heartbeat |-> -1])
                   /\ nextId' = [nextId EXCEPT !.devices = n + 1]
              ELSE UNCHANGED <<devices, nextId>>
    /\ UNCHANGED themeVars
    /\ UNCHANGED <<now, companies, users, issued, locations, subscriptions, visitors>>

\* GET /locations/by-code/{linking_code}, the code being that of location
\* location_id (None for a code no location has).
get_location_by_code(ctx, location_id) ==
    /\ ctx \in Requesters
    /\ LET n == nextId.devices
           found == IF location_id = None THEN {} ELSE FindLocation(location_id)
           l == CHOOSE x \in found : TRUE
           r == IF found = {} THEN Err(404)
                ELSE IF FindById(companies, ObjectId(locations[l].company_id)) = {}
                THEN Err(404)
                ELSE Ok
       IN  /\ resp' = Response("get_location_by_code", ctx, location_id, None, Reraise(r),
                               r.code = 200)
           /\ IF r.code = 200
              THEN /\ devices' = Insert(devices, n,
                         [company_id |-> locations[l].company_id,
                          location_id |-> Str(DocId(l)), status |-> "active",
                          device_token |-> DeviceToken(n), last_seen |-> now,
                          last_heartbeat |-> -1])
                   /\ nextId' = [nextId EXCEPT !.devices = n + 1]
              ELSE UNCHANGED <<devices, nextId>>
    /\ UNCHANGED themeVars
    /\ UNCHANGED <<now, companies, users, issued, locations, subscriptions, visitors>>

\* POST /devices/{device_id}/heartbeat: the update is keyed by
\* ObjectId(device_id) for an id of ObjectId length and by the string
\* otherwise; raised is whether update_one raises.  Both the update that
\* matches nothing and the one that raises are answered with the success
\* message.
device_heartbeat(device_id, raised) ==
    /\ LET key == IF Len(device_id) = IdLen THEN ObjectId(device_id) ELSE device_id
           found == FindById(devices, key)
       IN  /\ resp' = [op |-> "device_heartbeat", target |-> device_id, raised |-> raised,
                       found |-> found # {}, code |-> 200]
           /\ devices' = [d \in DOMAIN devices |->
                            IF ~raised /\ d \in found
                            THEN [devices[d] EXCEPT !.last_heartbeat = now]
                            ELSE devices[d]]
    /\ UNCHANGED themeVars
    /\ UNCHANGED <<now, nextId, companies, users, issued, locations, subscriptions, visitors>>

\* PUT /devices/{device_id} with a status
update_device(ctx, device_id, status) ==
    /\ ctx \in Requesters
    /\ LET found == FindById(devices, ObjectId(device_id))
           r == IF found = {} THEN Err(404) ELSE Ok
       IN  /\ resp' = Response("update_device", ctx,
                               IF found = {} THEN None
                               ELSE devices[CHOOSE x \in found : TRUE].location_id,
                               device_id, Reraise(r), FALSE)
           /\ devices' = [d \in DOMAIN devices |->
                            IF d \in found THEN [devices[d] EXCEPT !.status = status]
                            ELSE devices[d]]
    /\ UNCHANGED themeVars
    /\ UNCHANGED <<now, nextId, companies, users, issued, locations, subscriptions, visitors>>

\* DELETE /devices/{device_id}
delete_device(ctx, device_id) ==
    /\ ctx \in Requesters
    /\ LET found == FindById(devices, ObjectId(device_id))
           r == IF found = {} THEN Err(404) ELSE Ok
       IN  /\ resp' = Response("delete_device", ctx,
                               IF found = {} THEN None
                               ELSE devices[CHOOSE x \in found : TRUE].location_id,
                               device_id, Reraise(r), FALSE)
           /\ devices' = [d \in DOMAIN devices |->
                            IF d \in found THEN [devices[d] EXCEPT !.status = "inactive"]
                            ELSE devices[d]]
    /\ UNCHANGED themeVars
    /\ UNCHANGED <<now, nextId, companies, users, issued, locations, subscriptions, visitors>>

\* subscriptions.find_one({"_id": ObjectId(subscription_id),
\*                         "company_id": str(current_company["_id"])})
FindOwnSubscription(ctx, subscription_id) ==
    {s \in FindById(subscriptions, ObjectId(subscription_id)) :
        subscriptions[s].company_id = Str(ctx._id)}

\* locations.update_one({"_id": ObjectId(location_id)},
\*                      {"$set": {"subscription_status": status}})
SetLocationStatus(location_id, status) ==
    [l \in DOMAIN locations |->
        IF l \in FindLocation(location_id)
        THEN [locations[l] EXCEPT !.subscription_status = status]
        ELSE locations[l]]

\* GET /subscriptions/{subscription_id}
get_subscription(u, subscription_id) ==
    /\ u \in Callers
    /\ LET ctx == get_current_company(u)
           r == IF FindOwnSubscription(ctx, subscription_id) = {} THEN Err(404) ELSE Ok
       IN  resp' = Response("get_subscription", ctx, None, subscription_id, Reraise(r), FALSE)
    /\ UNCHANGED themeVars
    /\ UNCHANGED <<now, nextId, companies, users, issued, locations, subscriptions,
                   devices, visitors>>

\* PUT /subscriptions/{subscription_id}; plan is "unset" when absent, cancel is
\* "unset", "true" or "false"; stripe_ok tells whether the call to the
\* payment provider returns or raises.
update_subscription(u, subscription_id, plan, cancel, stripe_ok) ==
    /\ u \in Callers
    /\ LET ctx == get_current_company(u)
           found == FindOwnSubscription(ctx, subscription_id)
           sub == subscriptions[CHOOSE x \in found : TRUE]
           stripe_raises == /\ cancel # "unset"
                            /\ sub.stripe_subscription_id # None
                            /\ ~stripe_ok
           updated == found # {} /\ ~stripe_raises
           location_update == plan # "unset" \/ cancel = "true"
           r == IF found = {} THEN Err(404)
                ELSE IF stripe_raises THEN Err(400)
                ELSE IF location_update /\ sub.location_id = None THEN Err(400)
                ELSE Ok
       IN  /\ resp' = Response("update_subscription", ctx, None, subscription_id,
                               Reraise(r), FALSE)
           /\ subscriptions' = [s \in DOMAIN subscriptions |->
                 IF updated /\ s \in found /\ plan # "unset"
                 THEN [subscriptions[s] EXCEPT !.plan = plan,
                                               !.max_devices = plan_pricing(plan)]
                 ELSE subscriptions[s]]
           /\ locations' = IF r.code = 200 /\ cancel = "true"
                           THEN SetLocationStatus(sub.location_id, "canceled")
                           ELSE locations
    /\ UNCHANGED themeVars
    /\ UNCHANGED <<now, nextId, companies, users, issued, devices, visitors>>

\* POST /subscriptions/{subscription_id}/cancel
cancel_subscription(u, subscription_id, stripe_ok) ==
    /\ u \in Callers
    /\ LET ctx == get_current_company(u)
           found == FindOwnSubscription(ctx, subscription_id)
           sub == subscriptions[CHOOSE x \in found : TRUE]
           r == IF found = {} THEN Err(404)
                ELSE IF sub.stripe_subscription_id # None /\ ~stripe_ok THEN Err(400)
                ELSE Ok
       IN  /\ resp' = Response("cancel_subscription", ctx, None, subscription_id,
                               Reraise(r), FALSE)
           /\ subscriptions' = [s \in DOMAIN subscriptions |->
                 IF r.code = 200 /\ s \in found
                 THEN [subscriptions[s] EXCEPT !.status = "canceled"]
                 ELSE subscriptions[s]]
           /\ locations' = IF r.code = 200 /\ sub.location_id # None
                           THEN SetLocationStatus(sub.location_id, "canceled")
                           ELSE locations
    /\ UNCHANGED themeVars
    /\ UNCHANGED <<now, nextId, companies, users, issued, devices, visitors>>

\* The status an event of the payment provider sets.
EventStatus(event_type) ==
    IF event_type = "invoice.payment_succeeded" THEN "active"
    ELSE IF event_type = "invoice.payment_failed" THEN "past_due"
    ELSE "canceled"

WebhookEvents ==
    {"invoice.payment_succeeded", "invoice.payment_failed", "customer.subscription.deleted"}

\* The response to an event of the payment provider.
WebhookResponse(event_type, stripe_id, r) ==
    [op |-> "stripe_webhook", event |-> event_type, target |-> stripe_id,
     code |-> r.code, inner |-> r.inner]

\* POST /stripe/webhook for an event naming stripe subscription stripe_id:
\* update_one sets the status of one matching subscription, then the
\* location named by subscription["location_id"] is updated; a subscription
\* without that key raises KeyError, which leaves as 400.
stripe_webhook(event_type, stripe_id) ==
    /\ event_type \in WebhookEvents
    /\ stripe_id # None
    /\ LET matching == {s \in DOMAIN subscriptions :
                           subscriptions[s].stripe_subscription_id = stripe_id}
       IN  IF matching = {}
           THEN /\ resp' = WebhookResponse(event_type, stripe_id, Ok)
                /\ UNCHANGED <<subscriptions, locations>>
           ELSE \E s \in matching :
                   LET r == IF subscriptions[s].location_id = None THEN Err(400) ELSE Ok
                   IN  /\ resp' = WebhookResponse(event_type, stripe_id, Wrap400(r))
                       /\ subscriptions' = [subscriptions EXCEPT
                                               ![s].status = EventStatus(event_type)]
                       /\ locations' = IF r.code = 200
                                       THEN SetLocationStatus(subscriptions[s].location_id,
                                                              EventStatus(event_type))
                                       ELSE locations
    /\ UNCHANGED themeVars
    /\ UNCHANGED <<now, nextId, companies, users, issued, devices, visitors>>

(***************************************************************************)
(* The backend after three registrations: company 1 and company 2 with a   *)
(* company admin each, and a super admin.                                  *)
(***************************************************************************)
Init ==
    /\ now = 0
    /\ nextId = [users |-> 4, companies |-> 4, locations |-> 1, subscriptions |-> 1,
                 devices |-> 1, visitors |-> 1]
    /\ companies = [c \in 1..3 |-> [status |-> "active"]]
    /\ users = [u \in 1..3 |->
                  [company_id |-> Str(DocId(u)),
                   role |-> IF u = 3 THEN "super_admin" ELSE "company_admin"]]
    /\ issued = {}
    /\ locations = EmptyColl
    /\ subscriptions = EmptyColl
    /\ devices = EmptyColl
    /\ visitors = EmptyColl
    /\ resp = [op |-> "none"]
    /\ NoThemes

\* The ids a request may name: those of the documents the bounds allow and
\* one that no document has.
UserIds == 1..3
CompanyIdStrs == {IdStr(c) : c \in 1..2}
LocationIdStrs == {IdStr(l) : l \in 1..(MaxLocations + 1)}
SubscriptionIdStrs == {IdStr(s) : s \in 1..(MaxSubscriptions + 1)}
VisitorIdStrs == {IdStr(v) : v \in 1..(MaxVisitors + 1)}
DeviceTokens == {devices[d].device_token : d \in DOMAIN devices} \ {None}
StripeIds == {subscriptions[s].stripe_subscription_id : s \in DOMAIN subscriptions} \ {None}

(***************************************************************************)
(* Gated operations: subscriptions are created, linked and cancelled,      *)
(* time passes, and users and devices of several companies target the      *)
(* locations.                                                              *)
(***************************************************************************)
NextGate ==
    \/ \E l \in LocationIdStrs \cup {None} :
           /\ nextId.subscriptions <= MaxSubscriptions
           /\ create_subscription(1, l, "basic", FALSE)
    \/ \E s \in SubscriptionIdStrs :
           /\ nextId.locations <= MaxLocations
           /\ create_location(Anonymous, IdStr(1), s)
    \/ \E s \in SubscriptionIdStrs : cancel_subscription(1, s, TRUE)
    \/ \E u \in UserIds, s \in SubscriptionIdStrs : get_subscription(u, s)
    \/ \E u \in UserIds, l \in LocationIdStrs : get_location(get_current_company(u), l)
    \/ \E u \in UserIds, l \in LocationIdStrs :
           update_location(get_current_company(u), l, [status |-> "maintenance"])
    \/ \E u \in UserIds, l \in LocationIdStrs : delete_location(get_current_company(u), l)
    \/ \E u \in UserIds, l \in LocationIdStrs :
           /\ nextId.visitors <= MaxVisitors
           /\ create_visitor(u, l, "checked_in", -1)
    \/ \E t \in DeviceTokens, l \in LocationIdStrs :
           /\ nextId.visitors <= MaxVisitors
           /\ create_visitor_device(t, l, "checked_in", -1)
    \/ \E u \in UserIds, v \in VisitorIdStrs : checkout_visitor(u, v)
    \/ \E t \in DeviceTokens, v \in VisitorIdStrs : checkout_visitor_device(t, v)
    \/ \E u \in UserIds, l \in LocationIdStrs :
           /\ nextId.devices <= MaxDevices
           /\ create_device(u, l, "active")
    \/ \E l \in LocationIdStrs \cup {None} :
           /\ nextId.devices <= MaxDevices
           /\ get_location_by_code(Anonymous, l)

SpecGate == Init /\ [][NextGate]_vars

(***************************************************************************)
(* Trials: one company subscribes, opens a location and lets time pass     *)
(* while its admin and its kiosk use the gated operations.                 *)
(***************************************************************************)
NextTrial ==
    \/ /\ nextId.subscriptions <= 1
       /\ create_subscription(1, None, "basic", FALSE)
    \/ /\ nextId.locations <= MaxLocations
       /\ create_location(Anonymous, IdStr(1), IdStr(1))
    \/ \E l \in LocationIdStrs :
           /\ nextId.visitors <= MaxVisitors
           /\ create_visitor(1, l, "checked_in", -1)
    \/ \E t \in DeviceTokens, l \in LocationIdStrs :
           /\ nextId.visitors <= MaxVisitors
           /\ create_visitor_device(t, l, "checked_in", -1)
    \/ \E l \in LocationIdStrs :
           /\ nextId.devices <= MaxDevices
           /\ create_device(1, l, "active")
    \/ \E l \in LocationIdStrs :
           /\ nextId.devices <= MaxDevices
           /\ get_location_by_code(Anonymous, l)
    \/ Tick

SpecTrial == Init /\ [][NextTrial]_vars

(***************************************************************************)
(* Devices: a location of company 1 on a basic-plan trial, on which        *)
(* devices are registered, updated and deactivated.                        *)
(***************************************************************************)
MaxLocationDevices == 6

InitDevices ==
    /\ now = 0
    /\ nextId = [users |-> 4, companies |-> 4, locations |-> 2, subscriptions |-> 2,
                 devices |-> 1, visitors |-> 1]
    /\ companies = [c \in 1..3 |-> [status |-> "active"]]
    /\ users = [u \in 1..3 |->
                  [company_id |-> Str(DocId(u)),
                   role |-> IF u = 3 THEN "super_admin" ELSE "company_admin"]]
    /\ issued = {}
    /\ locations = [l \in {1} |->
                      [company_id |-> IdStr(1), subscription_id |-> IdStr(1),
                       status |-> "active", subscription_status |-> "none"]]
    /\ subscriptions = [s \in {1} |->
                          [company_id |-> IdStr(1), plan |-> "basic", status |-> "trialing",
                           trial_end |-> TRIAL_PERIOD, max_devices |-> plan_pricing("basic"),
                           location_id |-> IdStr(1), stripe_subscription_id |-> None]]
    /\ devices = EmptyColl
    /\ visitors = EmptyColl
    /\ resp = [op |-> "none"]
    /\ NoThemes

\* The devices whose status is changed after their creation.
ToggledDeviceIdStrs == {IdStr(1)}

\* The ids a heartbeat names: the first device, a device that does not
\* exist, and a string that is not an ObjectId.
HeartbeatDeviceIds == {IdStr(1), IdStr(MaxLocationDevices + 2), <<1>>}

NextDevices ==
    \/ /\ nextId.devices <= MaxLocationDevices
       /\ create_device(1, IdStr(1), "active")
    \/ /\ nextId.devices <= MaxLocationDevices
       /\ get_location_by_code(Anonymous, IdStr(1))
    \/ \E d \in ToggledDeviceIdStrs : update_device(Anonymous, d, "active")
    \/ \E d \in ToggledDeviceIdStrs : delete_device(Anonymous, d)
    \/ \E d \in HeartbeatDeviceIds, raised \in BOOLEAN : device_heartbeat(d, raised)

SpecDevices == InitDevices /\ [][NextDevices]_vars

(***************************************************************************)
(* Subscriptions: company 1 creates, links, updates and cancels            *)
(* subscriptions while the payment provider delivers events.               *)
(***************************************************************************)
NextSubs ==
    \/ \E l \in LocationIdStrs \cup {None}, pm \in BOOLEAN :
           /\ nextId.subscriptions <= MaxSubscriptions
           /\ create_subscription(1, l, "basic", pm)
    \/ \E s \in SubscriptionIdStrs :
           /\ nextId.locations <= MaxLocations
           /\ create_location(Anonymous, IdStr(1), s)
    \/ \E s \in SubscriptionIdStrs, ok \in BOOLEAN :
           update_subscription(1, s, "unset", "true", ok)
    \/ \E s \in SubscriptionIdStrs, ok \in BOOLEAN : cancel_subscription(1, s, ok)
    \/ \E e \in WebhookEvents, id \in StripeIds : stripe_webhook(e, id)

SpecSubs == Init /\ [][NextSubs]_vars

(***************************************************************************)
(* Locations: created for a company that exists or does not, updated with  *)
(* JSON objects that name status, company_id or both, deleted, and touched *)
(* by the subscription routes and the webhook.                             *)
(***************************************************************************)

\* The company ids a request names: two companies and an id no company has.
RequestedCompanyIdStrs == {IdStr(1), IdStr(2), IdStr(9)}

\* The JSON objects a PUT /locations/{location_id} carries.
LocationUpdates ==
    {[status |-> "maintenance"], [company_id |-> IdStr(2)],
     [status |-> "active", company_id |-> IdStr(2)]}

NextLocations ==
    \/ \E c \in {1, 2}, l \in LocationIdStrs \cup {None} :
           /\ nextId.subscriptions <= MaxSubscriptions
           /\ create_subscription(c, l, "basic", TRUE)
    \/ \E c \in RequestedCompanyIdStrs, s \in SubscriptionIdStrs :
           /\ nextId.locations <= MaxLocations
           /\ create_location(Anonymous, c, s)
    \/ \E l \in LocationIdStrs, update_data \in LocationUpdates :
           update_location(Anonymous, l, update_data)
    \/ \E l \in LocationIdStrs : delete_location(Anonymous, l)
    \/ \E u \in {1, 2}, s \in SubscriptionIdStrs :
           update_subscription(u, s, "unset", "true", TRUE)
    \/ \E u \in {1, 2}, s \in SubscriptionIdStrs : cancel_subscription(u, s, TRUE)
    \/ \E e \in WebhookEvents, id \in StripeIds : stripe_webhook(e, id)

SpecLocations == Init /\ [][NextLocations]_vars

(***************************************************************************)
(* The visitor log of two locations with a trialing subscription each:     *)
(* location 1 of company 1 with one linked device, location 2 of company 1 *)
(* or of company 2.                                                        *)
(***************************************************************************)
MaxListedVisitors == 2

InitVisitors ==
    /\ now = 0
    /\ nextId = [users |-> 4, companies |-> 4, locations |-> 3, subscriptions |-> 3,
                 devices |-> 2, visitors |-> 1]
    /\ companies = [c \in 1..3 |-> [status |-> "active"]]
    /\ users = [u \in 1..3 |->
                  [company_id |-> Str(DocId(u)),
                   role |-> IF u = 3 THEN "super_admin" ELSE "company_admin"]]
    /\ issued = {}
    /\ \E c \in {1, 2} :
          /\ locations = [l \in {1, 2} |->
                            [company_id |-> IF l = 1 THEN IdStr(1) ELSE IdStr(c),
                             subscription_id |-> IdStr(l),
                             status |-> "active", subscription_status |-> "none"]]
          /\ subscriptions = [s \in {1, 2} |->
                                [company_id |-> IF s = 1 THEN IdStr(1) ELSE IdStr(c),
                                 plan |-> "basic", status |-> "trialing",
                                 trial_end |-> TRIAL_PERIOD,
                                 max_devices |-> plan_pricing("basic"),
                                 location_id |-> IdStr(s),
                                 stripe_subscription_id |-> None]]
    /\ devices = [d \in {1} |->
                    [company_id |-> IdStr(1), location_id |-> IdStr(1), status |-> "active",
                     device_token |-> DeviceToken(1), last_seen |-> 0,
                     last_heartbeat |-> -1]]
    /\ visitors = EmptyColl
    /\ resp = [op |-> "none"]
    /\ NoThemes

\* The visitors a request names: those the bound allows.
ListedVisitorIdStrs == {IdStr(v) : v \in 1..MaxListedVisitors}

NextVisitors ==
    \/ \E u \in {1, 2}, l \in {IdStr(1), IdStr(2)}, t \in {-1, 0} :
           /\ nextId.visitors <= MaxListedVisitors
           /\ create_visitor(u, l, "checked_in", t)
    \/ /\ nextId.visitors <= MaxListedVisitors
       /\ create_visitor_device(DeviceToken(1), IdStr(1), "checked_in", -1)
    \/ \E st \in {"unset", "checked_in"}, t \in {-1, 0} :
           update_visitor(Anonymous, IdStr(1), st, t)
    \/ \E u \in UserIds, v \in ListedVisitorIdStrs : checkout_visitor(u, v)
    \/ \E v \in ListedVisitorIdStrs : checkout_visitor_device(DeviceToken(1), v)
    \/ \E u \in UserIds, st \in {"unset", "checked_out"} : get_visitors(u, st)
    \/ \E u \in UserIds : get_active_visitors(u)

SpecVisitors == InitVisitors /\ [][NextVisitors]_vars

(***************************************************************************)
(* Checkouts: visitors checked in at two locations by users and by the     *)
(* device of location 1, checked out through both checkout routes, while   *)
(* time passes.                                                            *)
(***************************************************************************)

NextCheckout ==
    \/ \E u \in {1, 2}, l \in {IdStr(1), IdStr(2)} :
           /\ nextId.visitors <= MaxListedVisitors
           /\ create_visitor(u, l, "checked_in", -1)
    \/ \E l \in {IdStr(1), IdStr(2)} :
           /\ nextId.visitors <= MaxListedVisitors
           /\ create_visitor_device(DeviceToken(1), l, "checked_in", -1)
    \/ \E u \in UserIds, v \in ListedVisitorIdStrs : checkout_visitor(u, v)
    \/ \E v \in ListedVisitorIdStrs : checkout_visitor_device(DeviceToken(1), v)
    \/ Tick

SpecCheckout == InitVisitors /\ [][NextCheckout]_vars

(***************************************************************************)
(* Device authentication: devices register themselves at location 1 with a *)
(* linking code, time passes, and requests arrive with the token of a      *)
(* device, with an unknown token or with none.                             *)
(***************************************************************************)
MaxLinkedDevices == 2

\* The X-Device-Token values a request may carry: none, the token of a
\* stored device, a token no device has.
PresentedDeviceTokens == {None, DeviceToken(0)} \cup DeviceTokens

NextDeviceAuth ==
    \/ /\ nextId.devices <= MaxLinkedDevices
       /\ get_location_by_code(Anonymous, IdStr(1))
    \/ \E t \in PresentedDeviceTokens : get_visitors_device(t, "unset")
    \/ \E t \in DeviceTokens :
           /\ nextId.visitors <= MaxVisitors
           /\ create_visitor_device(t, IdStr(1), "checked_in", -1)
    \/ Tick

SpecDeviceAuth == InitDevices /\ [][NextDeviceAuth]_vars

(***************************************************************************)
(* Company lifecycle: users are deleted, company 1 creates a subscription, *)
(* a location and a self-registered device, and companies are deleted.     *)
(***************************************************************************)
\* The companies a delete request names: the three registered ones and one
\* that does not exist.
DeletedCompanyIdStrs == {IdStr(c) : c \in 1..4}

NextCompanies ==
    \/ \E u \in UserIds : delete_user(u)
    \/ /\ nextId.subscriptions <= 1
       /\ create_subscription(1, None, "basic", FALSE)
    \/ /\ nextId.locations <= MaxLocations
       /\ create_location(Anonymous, IdStr(1), IdStr(1))
    \/ /\ nextId.devices <= MaxDevices
       /\ get_location_by_code(Anonymous, IdStr(1))
    \/ delete_location(Anonymous, IdStr(1))
    \/ delete_device(Anonymous, IdStr(1))
    \/ \E c \in DeletedCompanyIdStrs : delete_company(Anonymous, c)

SpecCompanies == Init /\ [][NextCompanies]_vars

(***************************************************************************)
(* Theme activation.  POST /api/themes/{theme_id}/activate awaits twice:   *)
(* the theme lookup, then replace_one(..., upsert=True).  The server runs  *)
(* an upsert as a match that either replaces the matched row in one step   *)
(* or, when nothing matches, goes on to insert; two upserts that both      *)
(* matched nothing both go on to insert.  The second insert then adds a    *)
(* second row when theme_activations has no unique index on companyId, and *)
(* otherwise either fails with DuplicateKeyError or is retried by the      *)
(* server as a replace, depending on the server.                           *)
(***************************************************************************)
MaxCalls == 2

\* The custom "id" of theme document number n.
ThemeId(n) == <<70, n>>

\* The index setup_theme_collections.py creates on theme_activations.
CompanyIdUnique == "theme_activations.companyId"

\* themes.find_one({"id": theme_id})
FindTheme(theme_id) == {n \in DOMAIN themes : themes[n].id = theme_id}

\* theme_activations rows matching {"companyId": company_id}
ActivationsOf(company_id) ==
    {a \in DOMAIN theme_activations : theme_activations[a].companyId = company_id}

\* The call is over with status code.
Finish(c, code) == [calls EXCEPT ![c].pc = "done", ![c].code = code]

\* The call is over with 200 after its write landed: wrote numbers the
\* writes in the order they landed.
FinishWrite(c) ==
    [calls EXCEPT ![c].pc = "done", ![c].code = 200,
                  ![c].wrote = 1 + Cardinality({x \in DOMAIN calls : calls[x].wrote > 0})]

\* The activation_doc of call c.
ActivationDoc(c) ==
    [companyId |-> calls[c].companyId, themeId |-> calls[c].theme_id, themeType |-> "custom"]

\* The response of a theme route to a user with context ctx, with the
\* companyId of the theme the request found (None when it found none);
\* code 0 stands for a request still in flight.
ThemeResponse(op, ctx, theme_id, code) ==
    [op |-> op, caller |-> ctx.user, role |-> ctx.role, company |-> Str(ctx._id),
     target |-> theme_id, code |-> code,
     owner |-> IF FindTheme(theme_id) = {} THEN None
               ELSE themes[CHOOSE n \in FindTheme(theme_id) : TRUE].companyId]

\* The response that ends call c after its first step.
CallResponse(c, code) ==
    [op |-> calls[c].op, caller |-> calls[c].user, role |-> calls[c].role,
     company |-> None, target |-> calls[c].theme_id, code |-> code,
     owner |-> calls[c].companyId]

\* The lookup and the access check the routes of /api/themes share: 404 for
\* a theme that does not exist; for a caller who is not a super admin
\* current_company["id"] raises KeyError (a company document has "_id" and
\* no "id"), which "except Exception" answers with 500; 0 when the handler
\* goes on.
ThemeAccess(ctx, theme_id) ==
    IF FindTheme(theme_id) = {} THEN 404
    ELSE IF ctx.role # "super_admin" THEN 500
    ELSE 0

\* The handler up to its replace_one: the theme lookup and the access
\* check.  A company document has no key "id", so for a caller who is not a
\* super admin current_company["id"] raises KeyError, which "except
\* Exception" answers with 500.
activate_theme(u, theme_id) ==
    /\ u \in Callers
    /\ LET ctx == get_current_company(u)
           c == Cardinality(DOMAIN calls) + 1
           found == FindTheme(theme_id)
           theme == themes[CHOOSE n \in found : TRUE]
           code == ThemeAccess(ctx, theme_id)
       IN  /\ calls' = Insert(calls, c,
                  [op |-> "activate_theme", user |-> u, role |-> ctx.role,
                   theme_id |-> theme_id,
                   companyId |-> IF found = {} THEN None ELSE theme.companyId,
                   pc |-> IF code = 0 THEN "match" ELSE "done", code |-> code, wrote |-> 0])
           /\ resp' = ThemeResponse("activate_theme", ctx, theme_id, code)
    /\ UNCHANGED <<theme_activations, themes, indexes>>
    /\ UNCHANGED <<now, nextId, companies, users, issued, locations, subscriptions,
                   devices, visitors>>

\* replace_one(..., upsert=True), first part: a matching row is replaced;
\* without one the upsert goes on to insert.
replace_one_match(c) ==
    /\ c \in DOMAIN calls
    /\ calls[c].pc = "match"
    /\ LET matched == ActivationsOf(calls[c].companyId)
       IN  IF matched = {}
           THEN /\ calls' = [calls EXCEPT ![c].pc = "insert"]
                /\ UNCHANGED <<theme_activations, resp>>
           ELSE \E a \in matched :
                   /\ theme_activations' = [theme_activations EXCEPT ![a] = ActivationDoc(c)]
                   /\ calls' = FinishWrite(c)
                   /\ resp' = CallResponse(c, 200)
    /\ UNCHANGED <<themes, indexes>>
    /\ UNCHANGED <<now, nextId, companies, users, issued, locations, subscriptions,
                   devices, visitors>>

\* replace_one(..., upsert=True), second part: the insert; retried is
\* whether the server retries a duplicate key as a replace.
replace_one_insert(c, retried) ==
    /\ c \in DOMAIN calls
    /\ calls[c].pc = "insert"
    /\ LET present == ActivationsOf(calls[c].companyId)
           a == Cardinality(DOMAIN theme_activations) + 1
       IN  IF present = {} \/ CompanyIdUnique \notin indexes
           THEN /\ theme_activations' = Insert(theme_activations, a, ActivationDoc(c))
                /\ calls' = FinishWrite(c)
                /\ resp' = CallResponse(c, 200)
           ELSE IF retried
           THEN /\ \E x \in present :
                      theme_activations' = [theme_activations EXCEPT ![x] = ActivationDoc(c)]
                /\ calls' = FinishWrite(c)
                /\ resp' = CallResponse(c, 200)
           ELSE /\ calls' = Finish(c, 500)
                /\ resp' = CallResponse(c, 500)
                /\ UNCHANGED theme_activations
    /\ UNCHANGED <<themes, indexes>>
    /\ UNCHANGED <<now, nextId, companies, users, issued, locations, subscriptions,
                   devices, visitors>>

\* Two themes of company 1 and one of company 2, no activation yet, with or
\* without the unique index.
InitThemes ==
    /\ now = 0
    /\ nextId = [users |-> 4, companies |-> 4, locations |-> 1, subscriptions |-> 1,
                 devices |-> 1, visitors |-> 1]
    /\ companies = [c \in 1..3 |-> [status |-> "active"]]
    /\ users = [u \in 1..3 |->
                  [company_id |-> Str(DocId(u)),
                   role |-> IF u = 3 THEN "super_admin" ELSE "company_admin"]]
    /\ issued = {}
    /\ locations = EmptyColl
    /\ subscriptions = EmptyColl
    /\ devices = EmptyColl
    /\ visitors = EmptyColl
    /\ resp = [op |-> "none"]
    /\ themes = [n \in 1..3 |->
                   [id |-> ThemeId(n), name |-> "created",
                    companyId |-> IF n = 3 THEN IdStr(2) ELSE IdStr(1)]]
    /\ theme_activations = EmptyColl
    /\ indexes \in {{}, {CompanyIdUnique}}
    /\ calls = EmptyColl

\* The theme ids a request names: those of the stored themes and one no
\* theme has.
ThemeIds == {ThemeId(n) : n \in 1..4}

NextThemes ==
    \/ \E u \in {1, 3}, t \in ThemeIds :
           /\ Cardinality(DOMAIN calls) < MaxCalls
           /\ activate_theme(u, t)
    \/ \E c \in 1..MaxCalls : replace_one_match(c)
    \/ \E c \in 1..MaxCalls, retried \in BOOLEAN : replace_one_insert(c, retried)

SpecThemes == InitThemes /\ [][NextThemes]_vars

(***************************************************************************)
(* The other routes of /api/themes.  DELETE /api/themes/{theme_id} awaits  *)
(* three times: the theme lookup, the lookup of an activation of the       *)
(* theme, and delete_one; calls of other requests run between them.        *)
(***************************************************************************)

\* GET /api/themes/{theme_id}
get_theme(u, theme_id) ==
    /\ u \in Callers
    /\ LET ctx == get_current_company(u)
           code == ThemeAccess(ctx, theme_id)
       IN  resp' = ThemeResponse("get_theme", ctx, theme_id, IF code = 0 THEN 200 ELSE code)
    /\ UNCHANGED themeVars
    /\ UNCHANGED <<now, nextId, companies, users, issued, locations, subscriptions,
                   devices, visitors>>

\* PUT /api/themes/{theme_id} with a new name
update_theme(u, theme_id, name) ==
    /\ u \in Callers
    /\ LET ctx == get_current_company(u)
           code == ThemeAccess(ctx, theme_id)
       IN  /\ themes' = IF code = 0
                         THEN [n \in DOMAIN themes |->
                                 IF n \in FindTheme(theme_id)
                                 THEN [themes[n] EXCEPT !.name = name] ELSE themes[n]]
                         ELSE themes
           /\ resp' = ThemeResponse("update_theme", ctx, theme_id, IF code = 0 THEN 200 ELSE code)
    /\ UNCHANGED <<theme_activations, indexes, calls>>
    /\ UNCHANGED <<now, nextId, companies, users, issued, locations, subscriptions,
                   devices, visitors>>

\* DELETE /api/themes/{theme_id} up to its second await: the theme lookup
\* and the access check.
delete_theme(u, theme_id) ==
    /\ u \in Callers
    /\ LET ctx == get_current_company(u)
           c == Cardinality(DOMAIN calls) + 1
           found == FindTheme(theme_id)
           existing_theme == themes[CHOOSE n \in found : TRUE]
           code == ThemeAccess(ctx, theme_id)
       IN  /\ calls' = Insert(calls, c,
                  [op |-> "delete_theme", user |-> u, role |-> ctx.role,
                   theme_id |-> theme_id,
                   companyId |-> IF found = {} THEN None ELSE existing_theme.companyId,
                   pc |-> IF code = 0 THEN "active_theme" ELSE "done", code |-> code,
                   wrote |-> 0])
           /\ resp' = ThemeResponse("delete_theme", ctx, theme_id, code)
    /\ UNCHANGED <<theme_activations, themes, indexes>>
    /\ UNCHANGED <<now, nextId, companies, users, issued, locations, subscriptions,
                   devices, visitors>>

\* delete_theme's lookup of an activation of the theme: 400 when there is
\* one.
delete_theme_active(c) ==
    /\ c \in DOMAIN calls
    /\ calls[c].pc = "active_theme"
    /\ LET active_theme == {a \in ActivationsOf(calls[c].companyId) :
                               theme_activations[a].themeId = calls[c].theme_id}
       IN  IF active_theme # {}
           THEN /\ calls' = Finish(c, 400)
                /\ resp' = CallResponse(c, 400)
           ELSE /\ calls' = [calls EXCEPT ![c].pc = "delete_one"]
                /\ UNCHANGED resp
    /\ UNCHANGED <<theme_activations, themes, indexes>>
    /\ UNCHANGED <<now, nextId, companies, users, issued, locations, subscriptions,
                   devices, visitors>>

\* delete_theme's delete_one({"id": theme_id}): 404 when it deleted nothing.
delete_theme_delete_one(c) ==
    /\ c \in DOMAIN calls
    /\ calls[c].pc = "delete_one"
    /\ LET found == FindTheme(calls[c].theme_id)
       IN  IF found = {}
           THEN /\ calls' = Finish(c, 404)
                /\ resp' = CallResponse(c, 404)
                /\ UNCHANGED themes
           ELSE /\ themes' = Delete(themes, CHOOSE n \in found : TRUE)
                /\ calls' = Finish(c, 200)
                /\ resp' = CallResponse(c, 200)
    /\ UNCHANGED <<theme_activations, indexes>>
    /\ UNCHANGED <<now, nextId, companies, users, issued, locations, subscriptions,
                   devices, visitors>>

\* The name a PUT gives a theme.
ThemeNames == {"renamed"}

\* The theme ids the requests name: a theme of company 1, the theme of
\* company 2 and an id no theme has.
RequestedThemeIds == {ThemeId(1), ThemeId(3), ThemeId(4)}

\* The users who call the theme routes: the admin of company 1 and the
\* super admin.
ThemeCallers == {1, 3}

NextThemeOps ==
    \/ \E u \in ThemeCallers, t \in RequestedThemeIds : get_theme(u, t)
    \/ \E u \in ThemeCallers, t \in RequestedThemeIds, name \in ThemeNames : update_theme(u, t, name)
    \/ \E u \in ThemeCallers, t \in RequestedThemeIds :
           /\ Cardinality(DOMAIN calls) < MaxCalls
           /\ activate_theme(u, t)
    \/ \E c \in 1..MaxCalls : replace_one_match(c)
    \/ \E c \in 1..MaxCalls, retried \in BOOLEAN : replace_one_insert(c, retried)
    \/ \E u \in ThemeCallers, t \in RequestedThemeIds :
           /\ Cardinality(DOMAIN calls) < MaxCalls
           /\ delete_theme(u, t)
    \/ \E c \in 1..MaxCalls : delete_theme_active(c)
    \/ \E c \in 1..MaxCalls : delete_theme_delete_one(c)

SpecThemeOps == InitThemes /\ [][NextThemeOps]_vars

(***************************************************************************)
(* Device limits by plan: company 1 subscribes to any of the three plans,  *)
(* links a location and registers, deactivates and reactivates devices.    *)
(***************************************************************************)
MaxPlanDevices == 3

NextLimits ==
    \/ \E plan \in Plans :
           /\ nextId.subscriptions <= 1
           /\ create_subscription(1, None, plan, FALSE)
    \/ /\ nextId.locations <= MaxLocations
       /\ create_location(Anonymous, IdStr(1), IdStr(1))
    \/ \E plan \in Plans : update_subscription(1, IdStr(1), plan, "unset", TRUE)
    \/ \E u \in UserIds, l \in LocationIdStrs :
           /\ nextId.devices <= MaxPlanDevices
           /\ create_device(u, l, "active")
    \/ \E d \in ToggledDeviceIdStrs : update_device(Anonymous, d, "active")
    \/ \E d \in ToggledDeviceIdStrs : delete_device(Anonymous, d)

SpecLimits == Init /\ [][NextLimits]_vars

(***************************************************************************)
(* User e-mail addresses.  POST /auth/register, POST /users and            *)
(* PUT /users/{user_id} look for a user with the e-mail in one await and   *)
(* write in a later one; calls of other requests run between the two.  No  *)
(* index on users is created at startup.                                   *)
(***************************************************************************)

\* users.find_one({"email": email, "_id": {"$ne": except}})
UsersWithEmail(email, except) ==
    {u \in DOMAIN users : users[u].email = email /\ DocId(u) # except}

\* The request of call c is answered with code.
UserResponse(c, code) == [op |-> calls[c].op, call |-> c, code |-> code]

\* POST /auth/register up to its first insert: the e-mail lookup.
register_user_existing(email) ==
    /\ LET c == Cardinality(DOMAIN calls) + 1
           code == IF UsersWithEmail(email, None) # {} THEN 400 ELSE 0
       IN  /\ calls' = Insert(calls, c,
                  [op |-> "register_user", email |-> email, company_id |-> None,
                   user_id |-> None,
                   pc |-> IF code = 0 THEN "insert_one" ELSE "done", code |-> code])
           /\ resp' = [op |-> "register_user", call |-> c, code |-> code]
    /\ UNCHANGED <<users, companies, nextId>>
    /\ UNCHANGED <<now, issued, locations, subscriptions, devices, visitors>>
    /\ UNCHANGED <<themes, theme_activations, indexes>>

\* register_user's inserts: the company, then the user as its admin.
register_user_insert(c) ==
    /\ c \in DOMAIN calls
    /\ calls[c].op = "register_user"
    /\ calls[c].pc = "insert_one"
    /\ LET company == nextId.companies
           u == nextId.users
       IN  /\ companies' = Insert(companies, company, [status |-> "active"])
           /\ users' = Insert(users, u,
                  [email |-> calls[c].email, company_id |-> Str(DocId(company)),
                   role |-> "company_admin"])
           /\ nextId' = [nextId EXCEPT !.companies = company + 1, !.users = u + 1]
    /\ calls' = [calls EXCEPT ![c].pc = "done", ![c].code = 200]
    /\ resp' = UserResponse(c, 200)
    /\ UNCHANGED <<now, issued, locations, subscriptions, devices, visitors>>
    /\ UNCHANGED <<themes, theme_activations, indexes>>

\* POST /users up to its insert: the e-mail lookup and the company lookup.
create_user_existing(email, company_id) ==
    /\ LET c == Cardinality(DOMAIN calls) + 1
           code == IF UsersWithEmail(email, None) # {} THEN 400
                   ELSE IF ~IsValidOid(company_id) THEN 400
                   ELSE IF FindById(companies, ObjectId(company_id)) = {} THEN 404
                   ELSE 0
       IN  /\ calls' = Insert(calls, c,
                  [op |-> "create_user", email |-> email, company_id |-> company_id,
                   user_id |-> None,
                   pc |-> IF code = 0 THEN "insert_one" ELSE "done", code |-> code])
           /\ resp' = [op |-> "create_user", call |-> c, code |-> code]
    /\ UNCHANGED <<users, companies, nextId>>
    /\ UNCHANGED <<now, issued, locations, subscriptions, devices, visitors>>
    /\ UNCHANGED <<themes, theme_activations, indexes>>

\* create_user's insert.
create_user_insert(c) ==
    /\ c \in DOMAIN calls
    /\ calls[c].op = "create_user"
    /\ calls[c].pc = "insert_one"
    /\ LET u == nextId.users
       IN  /\ users' = Insert(users, u,
                  [email |-> calls[c].email, company_id |-> calls[c].company_id,
                   role |-> "employee"])
           /\ nextId' = [nextId EXCEPT !.users = u + 1]
    /\ calls' = [calls EXCEPT ![c].pc = "done", ![c].code = 200]
    /\ resp' = UserResponse(c, 200)
    /\ UNCHANGED companies
    /\ UNCHANGED <<now, issued, locations, subscriptions, devices, visitors>>
    /\ UNCHANGED <<themes, theme_activations, indexes>>

\* PUT /users/{user_id} with a new e-mail, up to its update_one: the lookup
\* of the user and of another user with the e-mail.
update_user_existing(user_id, email) ==
    /\ LET c == Cardinality(DOMAIN calls) + 1
           code == IF ~IsValidOid(user_id) THEN 400
                   ELSE IF FindById(users, ObjectId(user_id)) = {} THEN 404
                   ELSE IF UsersWithEmail(email, ObjectId(user_id)) # {} THEN 400
                   ELSE 0
       IN  /\ calls' = Insert(calls, c,
                  [op |-> "update_user", email |-> email, company_id |-> None,
                   user_id |-> user_id,
                   pc |-> IF code = 0 THEN "update_one" ELSE "done", code |-> code])
           /\ resp' = [op |-> "update_user", call |-> c, code |-> code]
    /\ UNCHANGED <<users, companies, nextId>>
    /\ UNCHANGED <<now, issued, locations, subscriptions, devices, visitors>>
    /\ UNCHANGED <<themes, theme_activations, indexes>>

\* update_user's update_one({"_id": ObjectId(user_id)}, {"$set": update_doc})
update_user_update(c) ==
    /\ c \in DOMAIN calls
    /\ calls[c].op = "update_user"
    /\ calls[c].pc = "update_one"
    /\ users' = [u \in DOMAIN users |->
                    IF u \in FindById(users, ObjectId(calls[c].user_id))
                    THEN [users[u] EXCEPT !.email = calls[c].email]
                    ELSE users[u]]
    /\ calls' = [calls EXCEPT ![c].pc = "done", ![c].code = 200]
    /\ resp' = UserResponse(c, 200)
    /\ UNCHANGED <<companies, nextId>>
    /\ UNCHANGED <<now, issued, locations, subscriptions, devices, visitors>>
    /\ UNCHANGED <<themes, theme_activations, indexes>>

\* One company with one user, no request in flight.
InitUsers ==
    /\ now = 0
    /\ nextId = [users |-> 2, companies |-> 2, locations |-> 1, subscriptions |-> 1,
                 devices |-> 1, visitors |-> 1]
    /\ companies = [c \in {1} |-> [status |-> "active"]]
    /\ users = [u \in {1} |->
                  [email |-> "first@example.com", company_id |-> IdStr(1),
                   role |-> "company_admin"]]
    /\ issued = {}
    /\ locations = EmptyColl
    /\ subscriptions = EmptyColl
    /\ devices = EmptyColl
    /\ visitors = EmptyColl
    /\ resp = [op |-> "none"]
    /\ NoThemes

\* The e-mail addresses the requests carry: the one of the first user and
\* one no user has at the start.
Emails == {"first@example.com", "second@example.com"}

NextUsers ==
    \/ \E email \in Emails :
           /\ Cardinality(DOMAIN calls) < MaxCalls
           /\ register_user_existing(email)
    \/ \E c \in 1..MaxCalls : register_user_insert(c)
    \/ \E email \in Emails, company_id \in {IdStr(1), IdStr(9)} :
           /\ Cardinality(DOMAIN calls) < MaxCalls
           /\ create_user_existing(email, company_id)
    \/ \E c \in 1..MaxCalls : create_user_insert(c)
    \/ \E user_id \in {IdStr(1), IdStr(2), IdStr(9)}, email \in Emails :
           /\ Cardinality(DOMAIN calls) < MaxCalls
           /\ update_user_existing(user_id, email)
    \/ \E c \in 1..MaxCalls : update_user_update(c)

SpecUsers == InitUsers /\ [][NextUsers]_vars

(***************************************************************************)
(* Concurrent POST /locations/{location_id}/devices.  The dependencies     *)
(* validate_location_subscription and check_device_limits are resolved     *)
(* before the handler body runs; the body awaits the company lookup and    *)
(* the insert.  Requests of other callers run between the two.             *)
(***************************************************************************)

\* The dependencies of create_device: a request they refuse is answered; one
\* they let through waits as a call for its handler body.
create_device_depends(u, location_id, status) ==
    /\ u \in Callers
    /\ \E c \in 1..MaxCalls :
          /\ c \notin DOMAIN calls
          /\ \A x \in 1..(c - 1) : x \in DOMAIN calls
          /\ LET ctx == get_current_company(u)
                 location_validation == validate_location_subscription(location_id, ctx, now)
                 device_limits_check == check_device_limits(location_id)
                 r == IF location_validation.code # 200 THEN location_validation
                      ELSE device_limits_check
                 limits == IF location_validation.code = 200
                           THEN DeviceLimits(location_id) ELSE NoLimits
             IN  IF r.code # 200
                 THEN /\ resp' = Response("create_device", ctx, location_id, None,
                                          Reraise(r), FALSE) @@ [limits |-> limits]
                      /\ UNCHANGED calls
                 ELSE /\ calls' = Insert(calls, c,
                            [op |-> "create_device", user |-> u,
                             location_id |-> location_id, status |-> status,
                             limits |-> limits, pc |-> "insert_one"])
                      /\ UNCHANGED resp
    /\ UNCHANGED <<themes, theme_activations, indexes>>
    /\ UNCHANGED <<now, nextId, companies, users, issued, locations, subscriptions,
                   devices, visitors>>

\* The handler body of call c: the company lookup, the insert and the
\* response, after which the call is over.
create_device_insert(c) ==
    /\ c \in DOMAIN calls
    /\ calls[c].op = "create_device"
    /\ calls[c].pc = "insert_one"
    /\ LET ctx == get_current_company(calls[c].user)
           n == nextId.devices
           location_id == calls[c].location_id
           l == CHOOSE x \in FindLocation(location_id) : TRUE
           r == IF FindById(companies, ObjectId(locations[l].company_id)) = {}
                THEN Err(404) ELSE Ok
       IN  /\ resp' = Response("create_device", ctx, location_id, None, Reraise(r),
                               r.code = 200) @@ [limits |-> calls[c].limits]
           /\ IF r.code = 200
              THEN /\ devices' = Insert(devices, n,
                         [company_id |-> locations[l].company_id,
                          location_id |-> location_id, status |-> calls[c].status,
                          device_token |-> None, last_seen |-> -1,
                          last_heartbeat |-> -1])
                   /\ nextId' = [nextId EXCEPT !.devices = n + 1]
              ELSE UNCHANGED <<devices, nextId>>
    /\ calls' = Delete(calls, c)
    /\ UNCHANGED <<themes, theme_activations, indexes>>
    /\ UNCHANGED <<now, companies, users, issued, locations, subscriptions, visitors>>

NextDeviceRace ==
    \/ \E u \in UserIds :
           /\ nextId.devices <= MaxLocationDevices
           /\ create_device_depends(u, IdStr(1), "active")
    \/ \E c \in 1..MaxCalls : create_device_insert(c)
    \/ \E d \in ToggledDeviceIdStrs : update_device(Anonymous, d, "active")
    \/ \E d \in ToggledDeviceIdStrs : delete_device(Anonymous, d)

SpecDeviceRace == InitDevices /\ [][NextDeviceRace]_vars

(***************************************************************************)
(* Properties of the token service (checked under SpecToken).              *)
(***************************************************************************)
\* The last request presented a token exactly as create_access_token minted
\* it for a user id.
PresentedMinted ==
    /\ resp.op = "get_current_user"
    /\ resp.cred \in issued
    /\ resp.cred.user_id # None

\* C1: a token minted for (user_id = u, company_id = c) and presented no
\* later than its exp, while user u exists, authenticates as exactly the
\* user whose id is u.
C1_MintedTokenAuthenticates ==
    ( /\ PresentedMinted
      /\ FindById(users, ObjectId(resp.cred.user_id)) # {}
      /\ resp.at <= resp.cred.exp )
    => ( /\ resp.result.code = 200
         /\ resp.result.user \in DOMAIN users
         /\ Str(DocId(resp.result.user)) = resp.cred.user_id )

\* C1 witness: a user's minted token was presented at the very instant of
\* its expiry, after time had passed, and authenticated.
C1_Witness ==
    /\ PresentedMinted
    /\ resp.at = resp.cred.exp
    /\ resp.at > 0
    /\ resp.result.code = 200

\* C2: a validly signed token presented strictly after its exp is answered
\* with the distinct TOKEN_EXPIRED condition.
C2_ExpiredIsDistinct ==
    ( /\ PresentedMinted
      /\ resp.at > resp.cred.exp )
    => resp.result.error_code = "TOKEN_EXPIRED"

\* C3: a token made from a minted one by altering user_id, company_id, exp
\* or the signature is rejected as Unauthorized.
C3_TamperedRejected ==
    ( /\ resp.op = "get_current_user"
      /\ resp.cred.kind = "token"
      /\ resp.cred \notin issued )
    => ( /\ resp.result.code = 401
         /\ resp.result.error_code = "AUTHENTICATION_FAILED" )

\* C15: a legacy token that carries only company_id, minted by
\* create_access_token and presented unaltered before its exp, is accepted
\* and authenticates as a company_admin user of that company whenever such
\* a user exists.
C15_LegacyTokenAccepted ==
    ( /\ resp.op = "get_current_user"
      /\ resp.cred \in issued
      /\ resp.cred = resp.orig
      /\ resp.cred.user_id = None
      /\ resp.cred.company_id # None
      /\ resp.at <= resp.cred.exp
      /\ CompanyAdmins(resp.cred.company_id) # {} )
    => /\ resp.result.code = 200
       /\ resp.result.user \in CompanyAdmins(resp.cred.company_id)

(***************************************************************************)
(* Properties of the authorization guard and the subscription gate         *)
(* (checked under SpecGate and SpecTrial).                                 *)
(***************************************************************************)
\* The operations that target a location.
LocationTargetOps ==
    {"get_location", "update_location", "delete_location", "create_visitor",
     "create_device", "checkout_visitor"}

\* The operations behind the subscription gate.
GatedOps == {"create_visitor", "create_visitor_device", "create_device"}

\* The last request named a location (for a checkout: its visitor exists).
TargetsLocation == resp.op \in LocationTargetOps /\ resp.loc # None

\* The last request was a gated operation on an existing location by a
\* principal entitled to it: a non-super-admin user of the owning company,
\* or a device of that location.
EntitledGatedRequest ==
    /\ resp.op \in GatedOps
    /\ resp.gate.exists
    /\ resp.role # "super_admin"
    /\ resp.gate.owner = resp.company
    /\ resp.op = "create_visitor_device" =>
           \E d \in FindById(devices, ObjectId(resp.target)) :
               devices[d].location_id = resp.loc

\* C4: for a non-super-admin caller of company C, an operation on location
\* L is answered 404 when L does not exist, 403 when L belongs to another
\* company, and is not refused for ownership when L belongs to C, whatever
\* the operation.
C4_OwnershipDecides ==
    (TargetsLocation /\ resp.role = "company_admin")
    => IF ~resp.gate.exists THEN resp.code = 404
       ELSE IF resp.gate.owner # resp.company THEN resp.code = 403
       ELSE resp.code \notin {403, 404} /\ resp.inner \notin {403, 404}

\* C5: a super admin is never refused by a company-ownership check: not
\* with 403 on an existing location, not with "not found" on an existing
\* subscription of any company.
C5_SuperAdminNeverDenied ==
    resp.op # "none" /\ resp.op \in LocationTargetOps \cup {"get_subscription", "cancel_subscription"}
    /\ resp.role = "super_admin"
    => /\ (TargetsLocation /\ resp.gate.exists) => resp.inner # 403
       /\ ( /\ resp.op \in {"get_subscription", "cancel_subscription"}
            /\ FindById(subscriptions, ObjectId(resp.target)) # {} )
          => resp.code # 404

\* C6: on a location without a linked subscription in status active,
\* trialing or past_due, every visitor creation and device creation by an
\* entitled non-super-admin principal fails with 402 and creates nothing.
C6_NoSubscriptionPaymentRequired ==
    (EntitledGatedRequest /\ resp.gate.linked \notin ValidStatuses)
    => resp.code = 402 /\ ~resp.created

\* C7: on a location whose linked subscription is stored as trialing with
\* trial_end in the past, every gated operation by an entitled principal is
\* rejected with 402.
C7_LapsedTrialRejected ==
    (EntitledGatedRequest /\ resp.gate.linked = "trialing" /\ resp.gate.lapsed)
    => resp.code = 402 /\ ~resp.created

\* The handlers that apply the authorization check or the subscription gate.
GuardedOps ==
    {"create_visitor", "create_visitor_device", "checkout_visitor",
     "checkout_visitor_device", "create_device"}

\* C16: when the authorization check or the subscription gate of a handler
\* raises 404, 403 or 402, the response carries that same status code.
C16_GateErrorsPropagate ==
    (resp.op \in GuardedOps /\ resp.inner \in {402, 403, 404})
    => resp.code = resp.inner

(***************************************************************************)
(* Properties of the device limit (checked under SpecDevices).             *)
(***************************************************************************)
\* The devices of location l that are not inactive.
ActiveDevicesAt(l) ==
    {d \in DOMAIN devices :
        devices[d].location_id = Str(DocId(l)) /\ devices[d].status # "inactive"}

\* C8: the number of devices of a location whose status is not inactive
\* never exceeds the max_devices of the location's subscription.
C8_DeviceCountWithinPlan ==
    \A l \in DOMAIN locations : \A sub \in GateSubscription(l) :
        Cardinality(ActiveDevicesAt(l)) <= MaxDevicesOf(sub)

\* The operations that insert a device record.
DeviceCreatingOps == {"create_device", "get_location_by_code"}

\* C19 (checked under SpecGate): a device record is created for a location
\* only when the subscription gate passes for it (a linked subscription in a
\* valid status, not a lapsed trial) and the device limit is respected; this
\* includes the linking-code lookup that self-registers a device.
C19_DevicesOnlyThroughGates ==
    (resp.op \in DeviceCreatingOps /\ resp.created)
    => /\ resp.gate.linked \in ValidStatuses
       /\ ~resp.gate.lapsed
       /\ \A l \in FindLocation(resp.loc) : \A sub \in GateSubscription(l) :
             Cardinality(ActiveDevicesAt(l)) <= MaxDevicesOf(sub)

\* C21 (checked under SpecDevices): a heartbeat for a device id that does
\* not exist, or whose update raises, is not answered with a success
\* response.
C21_FailedHeartbeatReported ==
    (resp.op = "device_heartbeat" /\ (~resp.found \/ resp.raised))
    => resp.code # 200

\* C22 (checked under SpecLimits): when check_device_limits succeeds it
\* returns devices_remaining = max_devices - current count for the basic
\* and professional plans and the string "unlimited" for the enterprise
\* plan.
C22_RemainingQuota ==
    (resp.op = "create_device" /\ resp.limits.plan_type # "none")
    => IF resp.limits.plan_type = "enterprise"
       THEN resp.limits.unlimited
       ELSE /\ ~resp.limits.unlimited
            /\ resp.limits.devices_remaining
                   = resp.limits.max_devices - resp.limits.current_devices

\* C28: after a create_device that succeeded, concurrent with others or
\* not, the devices of the location that are not inactive are no more than
\* the max_devices of its subscription (checked under SpecDeviceRace).
C28_ConcurrentCreatesWithinLimit ==
    (resp.op = "create_device" /\ resp.code = 200)
        => \A l \in FindLocation(resp.loc) : \A sub \in GateSubscription(l) :
               Cardinality(ActiveDevicesAt(l)) <= MaxDevicesOf(sub)

(***************************************************************************)
(* Properties of subscriptions (checked under SpecSubs).                   *)
(***************************************************************************)
\* C9: for every location L at most one subscription document has
\* location_id = L.
C9_OneSubscriptionPerLocation ==
    \A l \in DOMAIN locations :
        Cardinality({s \in DOMAIN subscriptions :
                        subscriptions[s].location_id = Str(DocId(l))}) <= 1

\* C10: once the status of a subscription is canceled, no operation changes
\* it to active, trialing or past_due.
C10_CanceledIsTerminal ==
    [][\A s \in DOMAIN subscriptions :
          subscriptions[s].status = "canceled" => subscriptions'[s].status = "canceled"]_vars

\* C17: after the webhook processes an event for a known
\* stripe_subscription_id, the event succeeds, the subscription's status is
\* the one the event stands for, and the subscription_status of the
\* location linked to the subscription is the same, also when the
\* subscription has no linked location.
C17_WebhookMirrorsStatus ==
    resp.op = "stripe_webhook"
    => \A s \in DOMAIN subscriptions :
          subscriptions[s].stripe_subscription_id = resp.target
          => /\ resp.code = 200
             /\ subscriptions[s].status = EventStatus(resp.event)
             /\ \A l \in DOMAIN locations :
                   locations[l].subscription_id = Str(DocId(s))
                   => locations[l].subscription_status = EventStatus(resp.event)

(***************************************************************************)
(* Properties of the visitor log (checked under SpecVisitors).             *)
(***************************************************************************)
\* The locations whose company_id is company c.
LocationsOf(c) == {l \in DOMAIN locations : locations[l].company_id = c}

\* Visitor v is at a location of company c.
VisitorOf(v, c) == \E l \in LocationsOf(c) : visitors[v].location_id = Str(DocId(l))

\* The routes that list visitors for a user.
ListOps == {"get_visitors", "get_active_visitors"}

\* C11: every visitor whose check_out_time is set has status checked_out.
C11_CheckedOutWhenTimed ==
    \A v \in DOMAIN visitors :
        visitors[v].check_out_time # -1 => visitors[v].status = "checked_out"

\* C13: a visitor created at a location of the company, linked to its
\* subscription, appears in GET /visitors/active of the company while it is
\* checked_in, and PUT /visitors/{id}/checkout by the same company succeeds
\* and leaves it checked_out with check_out_time set.
C13_CheckInThenCheckout ==
    /\ (resp.op = "get_active_visitors" /\ resp.role = "company_admin")
       => \A v \in DOMAIN visitors :
             (visitors[v].status = "checked_in" /\ VisitorOf(v, resp.company))
             => v \in resp.result
    /\ ( /\ resp.op = "checkout_visitor"
         /\ resp.role = "company_admin"
         /\ resp.gate.exists
         /\ resp.gate.owner = resp.company
         /\ resp.gate.linked \in ValidStatuses )
       => /\ resp.code = 200
          /\ \A v \in FindById(visitors, ObjectId(resp.target)) :
                visitors[v].status = "checked_out" /\ visitors[v].check_out_time # -1

\* C14: for a caller who is not a super admin, GET /visitors and
\* GET /visitors/active succeed and return only visitors at locations of
\* the caller's company, and the empty list when the company has no
\* location.
C14_ListsOnlyOwnVisitors ==
    (resp.op \in ListOps /\ resp.role # "super_admin")
    => /\ resp.code = 200
       /\ \A v \in resp.result : VisitorOf(v, resp.company)
       /\ LocationsOf(resp.company) = {} => resp.result = {}

\* A company admin lists visitors and gets some, while a visitor of another
\* company is in the log.
C14_Witness ==
    /\ resp.op \in ListOps
    /\ resp.role = "company_admin"
    /\ resp.result # {}
    /\ \E v \in DOMAIN visitors : ~VisitorOf(v, resp.company)

(***************************************************************************)
(* Properties of device authentication (checked under SpecDeviceAuth).     *)
(***************************************************************************)
\* C18: a request whose token matches a stored device is answered for that
\* device and changes nothing in the devices collection but that device's
\* last_seen, which becomes the current time; a request with a missing or
\* unknown token is answered 401 and changes no device.
C18_DeviceLookupStampsLastSeen ==
    resp.op = "get_visitors_device"
    => LET matching == {d \in DOMAIN resp.before :
                           resp.token # None /\ resp.before[d].device_token = resp.token}
       IN  IF matching = {}
           THEN resp.code = 401 /\ devices = resp.before
           ELSE /\ resp.code = 200
                /\ resp.device \in matching
                /\ devices = [resp.before EXCEPT ![resp.device].last_seen = resp.at]

\* A device is stamped with a new time while another device is stored.
C18_Witness ==
    /\ resp.op = "get_visitors_device"
    /\ resp.code = 200
    /\ resp.before[resp.device].last_seen # resp.at
    /\ devices[resp.device].last_seen = resp.at
    /\ Cardinality(DOMAIN devices) > 1

(***************************************************************************)
(* Properties of the company lifecycle (checked under SpecCompanies).      *)
(***************************************************************************)
\* C20: DELETE /companies/{id} on an existing company that still has
\* locations, devices or users succeeds, keeps the company row and leaves
\* its status inactive.
C20_SoftDeleteWithDependents ==
    (resp.op = "delete_company" /\ Dependents(resp.target) # {})
    => \A c \in FindById(companies, ObjectId(resp.target)) :
          resp.code = 200 /\ companies[c].status = "inactive"

(***************************************************************************)
(* Properties of theme activation (checked under SpecThemes).              *)
(***************************************************************************)
\* Two activate calls for existing themes of one company with different
\* theme ids have both ended.
TwoActivationsDone ==
    /\ DOMAIN calls = {1, 2}
    /\ calls[1].pc = "done" /\ calls[2].pc = "done"
    /\ calls[1].companyId # None
    /\ calls[1].companyId = calls[2].companyId
    /\ calls[1].theme_id # calls[2].theme_id

\* C12: after two concurrent activate calls for the same company with
\* different theme ids, under every interleaving both calls have succeeded
\* and theme_activations holds exactly one row for the company, whose
\* themeId is that of the call whose write landed last.
C12_ConcurrentActivation ==
    TwoActivationsDone
    => /\ calls[1].code = 200 /\ calls[2].code = 200
       /\ Cardinality(ActivationsOf(calls[1].companyId)) = 1
       /\ \A a \in ActivationsOf(calls[1].companyId) : \A c \in {1, 2} :
             calls[c].wrote = 2 => theme_activations[a] = ActivationDoc(c)


\* C30: the subscription a location's subscription_id names exists, names
\* the location in its location_id and has the location's company_id; and
\* a location that a subscription's location_id names has that subscription
\* in its subscription_id (checked under SpecSubs).
C30_LinkBothWays ==
    \A l \in DOMAIN locations :
        /\ locations[l].subscription_id # None
              => \E s \in DOMAIN subscriptions :
                    /\ Str(DocId(s)) = locations[l].subscription_id
                    /\ subscriptions[s].location_id = Str(DocId(l))
                    /\ subscriptions[s].company_id = locations[l].company_id
        /\ \A s \in DOMAIN subscriptions :
              subscriptions[s].location_id = Str(DocId(l))
                  => locations[l].subscription_id = Str(DocId(s))

(***************************************************************************)
(* Properties of locations (checked under SpecLocations).                  *)
(***************************************************************************)

\* C26: a location is created with the company_id of a company that exists,
\* and no step changes the company_id of a location or removes a location.
C26_LocationCompanyFixed ==
    [][/\ \A l \in DOMAIN locations :
             /\ l \in DOMAIN locations'
             /\ locations'[l].company_id = locations[l].company_id
       /\ \A l \in DOMAIN locations' \ DOMAIN locations :
             FindById(companies, ObjectId(locations'[l].company_id)) # {}]_vars

\* A PUT that named company_id and status was answered 200 for a location
\* of company 1.
C26_Witness ==
    /\ resp.op = "update_location"
    /\ resp.code = 200
    /\ \E l \in FindLocation(resp.loc) :
          /\ locations[l].status = "active"
          /\ locations[l].subscription_status = "canceled"
          /\ locations[l].company_id = IdStr(1)

(***************************************************************************)
(* Properties of checkouts (checked under SpecCheckout).                   *)
(***************************************************************************)

\* A checkout request for the visitor with id visitor_id, by either route.
CheckoutRequest(visitor_id) ==
    \/ \E u \in UserIds : checkout_visitor(u, visitor_id)
    \/ \E t \in DeviceTokens : checkout_visitor_device(t, visitor_id)

C25_DeviceOwnLocationOnly ==
    [][\A t \in DeviceTokens : \A d \in get_current_device(t) :
          /\ \A l \in LocationIdStrs :
                (/\ l # devices[d].location_id
                 /\ \E st \in VisitorStatuses, ct \in {-1, 0} :
                       create_visitor_device(t, l, st, ct))
                    => resp'.code = 403 /\ visitors' = visitors
          /\ \A v \in DOMAIN visitors :
                (/\ visitors[v].location_id # devices[d].location_id
                 /\ checkout_visitor_device(t, Str(DocId(v))))
                    => resp'.code = 403 /\ visitors' = visitors]_vars

\* The device of location 1 was refused the checkout of a visitor checked
\* in at location 2.
C25_Witness ==
    /\ resp.op = "checkout_visitor_device"
    /\ resp.code = 403
    /\ \E v \in DOMAIN visitors, d \in DOMAIN devices :
          /\ Str(DocId(v)) = resp.target
          /\ visitors[v].location_id # devices[d].location_id
          /\ visitors[v].check_out_time = -1

(***************************************************************************)
(* Properties of user e-mail addresses (checked under SpecUsers).          *)
(***************************************************************************)

\* C27: no two user documents have the same e-mail address.
C27_EmailUnique ==
    \A u1, u2 \in DOMAIN users : u1 # u2 => users[u1].email # users[u2].email

(***************************************************************************)
(* Properties of the theme routes (checked under SpecThemeOps).            *)
(***************************************************************************)

ThemeOps == {"get_theme", "update_theme", "delete_theme", "activate_theme"}

\* C23: a company admin's get, update, delete or activate of an existing
\* theme is not refused (no 403, 404 or 500) when the theme's companyId is
\* the admin's company, and is answered 403 when it is another company's.
C23_ThemeOwnershipDecides ==
    (/\ resp.op \in ThemeOps
     /\ resp.role = "company_admin"
     /\ resp.company # None
     /\ resp.owner # None)
        => IF resp.owner = resp.company
           THEN resp.code \notin {403, 404, 500}
           ELSE resp.code = 403

\* C29: every theme_activations row of type custom names a theme that
\* exists.
C29_ActivePointerNeverDangles ==
    \A a \in DOMAIN theme_activations :
        theme_activations[a].themeType = "custom"
            => FindTheme(theme_activations[a].themeId) # {}

====
